---------------------------- MODULE Spec2Model ----------------------------
(***************************************************************************)
(* A model of the text layout engine of rasterize-wasm: the font cache of  *)
(* FontLoader, getBidiRuns, segmentByFont, prefetchEmoji, shapeAndRender   *)
(* and the render() / generateTextPaths pipeline.                          *)
(*                                                                         *)
(* The module holds several specifications over one set of variables; each *)
(* specification moves its own group of variables and leaves the others at *)
(* their idle values.                                                      *)
(***************************************************************************)
EXTENDS Integers, Sequences, FiniteSets, TLC

VARIABLES
    \* ---- FontLoader (src/unnamed/part_006, lines 57-100)
    fontCache,      \* FontLoader._fontCache: family -> handle, null when absent
    loaderPc,       \* per caller: position inside _loadLocalFont
    loaderKey,      \* per caller: the fontFamily argument of the call in progress
    loaderResult,   \* per caller: the value the last call resolved to
    fileReads,      \* per family: number of readFileSync + decompress loads started
    nextHandle,     \* number of font objects createHbFont has produced so far
    fontsOnDisk,    \* the families whose file exists under FONTS_DIR
    \* ---- getBidiRuns (src/src/renderers/text-processor.js, lines 152-171)
    bidiText,       \* the text argument: a sequence of characters
    bidiLevels,     \* result.levels of bidi.getEmbeddingLevels(text, 'ltr')
    bidiRuns,       \* the array getBidiRuns returns
    bidiPc,         \* "call" before getBidiRuns has run, "done" after
    \* ---- segmentByFont (src/src/renderers/text-processor.js, lines 179-235)
    segGraphemes,   \* the graphemes argument: the clusters of one BidiRun
    segArgs,        \* primaryFont, internationalFonts, fallbackFont, emojiCache,
                    \* enableEmoji and direction
    segRuns,        \* the array segmentByFont returns
    segPc,          \* "call" before segmentByFont has run, "done" after
    \* ---- prefetchEmoji (src/src/renderers/text-processor.js, lines 139-146, 297-299)
    pfText,         \* the text of the node: a sequence of code points
    pfEnableEmoji,  \* options.enableEmoji
    pfLookups,      \* the clusters loadEmojiSvg has been called with, in call order
    pfPc,           \* "call" before the prefetch of generateTextPaths, "done" after
    \* ---- render() and generateTextPaths (src/src/index.js, lines 163-226)
    rInput,         \* the kind of value render() is given as input
    rPc,            \* render(): "convert", "fonts", "paths", "rasterizing", "done" or "failed"
    rFontTask,      \* per font promise of the first Promise.all: "idle" until created
    rEnableEmoji,   \* this.options.enableEmoji
    nText,          \* per text node: its clusters
    nPc,            \* per text node: position inside generateTextPaths
    nPending,       \* per text node: clusters whose loadEmojiSvg promise is pending
    nFetched,       \* per text node: number of loadEmojiSvg calls made so far
    nWalked,        \* per text node: clusters the layout loop has gone through
    running,        \* the node whose synchronous layout holds the thread, 0 if none
    \* ---- shapeAndRender (src/src/renderers/text-processor.js, lines 240-284)
    shGlyphs,       \* buffer.json(): the glyphs the shaper produced for the run
    shOrigin,       \* x, y, fontSize and upem of the call
    shParts,        \* the placements of the emitted paths, in emission order
    shCursor,       \* currentX of generateTextPaths, in units of 1/upem
    shPc,           \* "call" before the run is shaped, "done" after
    \* ---- generateTextPaths, the layout loop (text-processor.js, lines 286-354)
    asEntry,        \* "render": called by render(); "direct": called by an API user
    asNode,         \* the text node: clusters, textAnchor, featureString, x, y, fontSize
    asFonts,        \* the loaded fonts: primaryFont, internationalFonts, fallbackFont
    asEmoji,        \* enableEmoji and the emojiCache the prefetch returned
    asShaperThrows, \* hb.shape raises an error for the text runs of this node
    asRuns,         \* the runs segmentByFont returned
    asTrace,        \* per run: cursor and number of parts after it, features used
    asParts,        \* the parts array
    asCursor,       \* currentX and currentY, in units of 1/upem pixel
    asResult,       \* what generateTextPaths settled to
    asPc,           \* "call" before the layout, "done" after
    \* ---- loadInternationalFonts with font chains (src/unnamed/part_005, lines 143-177)
    chOutcomes,     \* per candidate of the chain: what _fetchGoogleFont does for it
    chNext,         \* index of the candidate being fetched, 0 before the call
    chTried,        \* the candidates _fetchGoogleFont has been called for
    chFont,         \* font of the { entry, font } result: candidate index, or null
    chPc,           \* "call", "fetching" or "done"
    \* ---- render(): concurrent generateTextPaths calls and the replacements
    \*      (src/src/index.js, lines 195-209; text-processor.js, lines 286-354)
    lyFonts,        \* the loaded fonts: primaryFont, internationalFonts, fallbackFont
    lyNode,         \* per text element: text, position inside generateTextPaths,
                    \* bidiRuns, BidiRuns laid out, the locals of the call, fragment
    lyDoc,          \* processedSvg: per text element its source or what replaced it
    lyPc,           \* "paths" until the replacements are applied, then "replaced"
    \* ---- applyRTLProcessing (src/src/renderers/text-processor.js, lines 90-125)
    rtlText,        \* the text argument: a sequence of code points
    rtlOut,         \* the array applyRTLProcessing returns
    rtlPc,          \* "call" before applyRTLProcessing has run, "done" after
    \* ---- FontLoader.buildSubstitutionMap (src/unnamed/part_005, lines 112-141)
    sbGsub,         \* font.tables.gsub: features and lookups
    sbTags,         \* the featureTags argument
    sbMap,          \* the Map buildSubstitutionMap returns: glyph -> substitute
    sbPc,           \* "call" before buildSubstitutionMap has run, "done" after
    \* ---- SVGRenderer (src/src/renderers/svg-renderer.js, lines 9-48)
    wasmInitialized, \* SVGRenderer.wasmInitialized
    initWasmCalls,  \* the initWasm invocations so far: caller and bytes given
    wOptions,       \* per render(): wasmBuffer of the constructor options and
                    \* of the options object passed to render()
    wPc,            \* per render(): position inside renderSVGToPNG
    \* ---- toFile (src/unnamed/part_008, lines 12-30)
    tfBaseDir,      \* the baseDir argument: an absolute path
    tfFilePath,     \* the filePath argument
    tfDirs,         \* the directories mkdirSync has been asked to create
    tfFiles,        \* the paths writeFileSync has written
    tfResult,       \* what toFile returned or raised
    tfPc            \* "call", "write" or "done"

loaderVars == <<fontCache, loaderPc, loaderKey, loaderResult, fileReads, nextHandle, fontsOnDisk>>

bidiVars == <<bidiText, bidiLevels, bidiRuns, bidiPc>>

segVars == <<segGraphemes, segArgs, segRuns, segPc>>

prefetchVars == <<pfText, pfEnableEmoji, pfLookups, pfPc>>

renderVars == <<rPc, rFontTask, rInput, rEnableEmoji, nText, nPc, nPending, nFetched, nWalked, running>>

shapeVars == <<shGlyphs, shOrigin, shParts, shCursor, shPc>>

assembleVars == <<asEntry, asNode, asFonts, asEmoji, asShaperThrows, asRuns, asTrace, asParts,
                  asCursor, asResult, asPc>>

chainVars == <<chOutcomes, chNext, chTried, chFont, chPc>>

layoutVars == <<lyFonts, lyNode, lyDoc, lyPc>>

rtlVars == <<rtlText, rtlOut, rtlPc>>

substVars == <<sbGsub, sbTags, sbMap, sbPc>>

wasmVars == <<wasmInitialized, initWasmCalls, wOptions, wPc>>

fileVars == <<tfBaseDir, tfFilePath, tfDirs, tfFiles, tfResult, tfPc>>

vars == <<loaderVars, bidiVars, segVars, prefetchVars, renderVars, shapeVars, assembleVars, chainVars,
          layoutVars, rtlVars, substVars, wasmVars, fileVars>>

-----------------------------------------------------------------------------
(* Values *)

\* JS null / "no font": font handles are the positive integers.
null == 0

-----------------------------------------------------------------------------
(* FontLoader: _fontCache and _loadLocalFont *)

\* Number of concurrent callers of _loadLocalFont (loadFallbackFont and the
\* iterations of loadInternationalFonts, of one or several render() calls).
NCallers == 3

\* Cap on the number of loads of one family started in one behaviour.
MaxLoads == 2

Callers == 1..NCallers

\* 'Noto+Sans' is both the default fallback family and the Cyrillic/Greek
\* script family; 'Roboto' stands for a family that has no local file entry.
Families == {"Noto+Sans", "Noto+Naskh+Arabic", "Roboto"}

\* The keys of LOCAL_FONT_FILES among Families.
LOCAL_FONT_FILES == {"Noto+Sans", "Noto+Naskh+Arabic"}

\* The positions of a caller inside _loadLocalFont: the two awaits of the
\* function are the only points where other callers can run.
InFlight == {"decompress", "createHbFont"}

LoaderStart ==
    /\ fontCache = [f \in Families |-> null]
    /\ loaderPc = [c \in Callers |-> "idle"]
    /\ loaderKey = [c \in Callers |-> "Noto+Sans"]
    /\ loaderResult = [c \in Callers |-> null]
    /\ fileReads = [f \in Families |-> 0]
    /\ nextHandle = 0
    /\ fontsOnDisk \in SUBSET LOCAL_FONT_FILES

\* The cache test that opens _loadLocalFont: this._fontCache.has(cacheKey).
CacheHas(f) == fontCache[f] # null

\* The synchronous head of _loadLocalFont, up to its first await: a cache hit
\* returns the cached handle, an unknown family or a missing file returns
\* null, otherwise the file is read and decompression is awaited.
LoadLocalFontCall(c, f) ==
    /\ loaderPc[c] = "idle"
    /\ (~CacheHas(f) /\ f \in LOCAL_FONT_FILES /\ f \in fontsOnDisk) => fileReads[f] < MaxLoads
    /\ loaderKey' = [loaderKey EXCEPT ![c] = f]
    /\ IF CacheHas(f)
       THEN /\ loaderResult' = [loaderResult EXCEPT ![c] = fontCache[f]]
            /\ loaderPc' = [loaderPc EXCEPT ![c] = "returned"]
            /\ UNCHANGED fileReads
       ELSE IF f \notin LOCAL_FONT_FILES \/ f \notin fontsOnDisk
       THEN /\ loaderResult' = [loaderResult EXCEPT ![c] = null]
            /\ loaderPc' = [loaderPc EXCEPT ![c] = "returned"]
            /\ UNCHANGED fileReads
       ELSE /\ fileReads' = [fileReads EXCEPT ![f] = @ + 1]
            /\ loaderPc' = [loaderPc EXCEPT ![c] = "decompress"]
            /\ UNCHANGED loaderResult
    /\ UNCHANGED <<fontCache, nextHandle, fontsOnDisk>>

\* await decompress(brBuf) settles: the bytes arrive, or the call rejects.
DecompressSettles(c) ==
    /\ loaderPc[c] = "decompress"
    /\ \E ok \in BOOLEAN :
          loaderPc' = [loaderPc EXCEPT ![c] = IF ok THEN "createHbFont" ELSE "rejected"]
    /\ UNCHANGED <<fontCache, loaderKey, loaderResult, fileReads, nextHandle, fontsOnDisk>>

\* this._fontCache.set(cacheKey, fontObj): the entry is written whatever the
\* cache holds for the key at that moment.
CacheSet(f, h) == [fontCache EXCEPT ![f] = h]

\* await createHbFont(...) settles: a fresh font object is stored in the cache
\* and returned, or createHbFont throws and the call rejects.
CreateHbFontSettles(c) ==
    /\ loaderPc[c] = "createHbFont"
    /\ \/ /\ nextHandle' = nextHandle + 1
          /\ fontCache' = CacheSet(loaderKey[c], nextHandle + 1)
          /\ loaderResult' = [loaderResult EXCEPT ![c] = nextHandle + 1]
          /\ loaderPc' = [loaderPc EXCEPT ![c] = "returned"]
       \/ /\ loaderPc' = [loaderPc EXCEPT ![c] = "rejected"]
          /\ UNCHANGED <<fontCache, loaderResult, nextHandle>>
    /\ UNCHANGED <<loaderKey, fileReads, fontsOnDisk>>

\* The caller takes the settled value; it may call again later.
LoaderReturn(c) ==
    /\ loaderPc[c] \in {"returned", "rejected"}
    /\ loaderPc' = [loaderPc EXCEPT ![c] = "idle"]
    /\ UNCHANGED <<fontCache, loaderKey, loaderResult, fileReads, nextHandle, fontsOnDisk>>

-----------------------------------------------------------------------------
(* getBidiRuns *)

\* Longest text given to getBidiRuns.
MaxTextLen == 4

\* Characters of the texts given to getBidiRuns: a Latin letter, an Arabic
\* letter (U+0627) and an Arabic-Indic digit (U+0661).
BidiChars == {"a", "alef", "adigit"}

\* bidi.getEmbeddingLevels(text, 'ltr').levels for these characters: with the
\* base direction fixed to 'ltr' and no explicit embedding, a Latin letter is
\* at level 0, an Arabic letter at level 1 and an Arabic number at level 2.
\* U+000A and U+000D are paragraph separators, which stay at the base level.
EmbeddingLevel(ch) ==
    CASE ch = "a" -> 0
      [] ch = "alef" -> 1
      [] ch = "adigit" -> 2
      [] ch \in {"lf", "cr"} -> 0

getEmbeddingLevels(text) == [i \in 1..Len(text) |-> EmbeddingLevel(text[i])]

SeqsUpTo(S, n) == UNION {[1..k -> S] : k \in 0..n}

BidiStart ==
    /\ bidiText \in SeqsUpTo(BidiChars, MaxTextLen)
    /\ bidiLevels = getEmbeddingLevels(bidiText)
    /\ bidiRuns = <<>>
    /\ bidiPc = "call"

BidiIdle ==
    /\ bidiText = <<>>
    /\ bidiLevels = <<>>
    /\ bidiRuns = <<>>
    /\ bidiPc = "idle"

\* text.slice(from, to) with the 0-based, end-exclusive indices of the code.
Slice(text, from, to) == SubSeq(text, from + 1, to)

\* direction: level % 2 === 0 ? 'ltr' : 'rtl'
DirectionOf(level) == IF level % 2 = 0 THEN "ltr" ELSE "rtl"

\* ClosesRun without the flush of the last run at the end of the text.
ClosesRunNoFlush(text, levels, i, runStart) ==
    i < Len(text) /\ levels[i + 1] # levels[runStart + 1]

\* The test that closes a run at index i (0-based, as in the code):
\* i === text.length || levels[i] !== levels[runStart].
ClosesRun(text, levels, i, runStart) ==
    i = Len(text) \/ levels[i + 1] # levels[runStart + 1]

\* The loop of getBidiRuns: for (let i = 1; i <= text.length; i++).
RECURSIVE BidiLoop(_, _, _, _, _)
BidiLoop(text, levels, i, runStart, runs) ==
    IF i > Len(text) THEN runs
    ELSE IF ClosesRun(text, levels, i, runStart)
    THEN BidiLoop(text, levels, i + 1, i,
                  Append(runs, [text |-> Slice(text, runStart, i),
                                direction |-> DirectionOf(levels[runStart + 1]),
                                start |-> runStart,
                                end |-> i]))
    ELSE BidiLoop(text, levels, i + 1, runStart, runs)

getBidiRuns(text, levels) == BidiLoop(text, levels, 1, 0, <<>>)

GetBidiRunsCall ==
    /\ bidiPc = "call"
    /\ bidiRuns' = getBidiRuns(bidiText, bidiLevels)
    /\ bidiPc' = "done"
    /\ UNCHANGED <<bidiText, bidiLevels>>

-----------------------------------------------------------------------------
(* Clusters and their classification *)

(* A grapheme cluster is a non-empty sequence of code points.  The code     *)
(* points of the model:                                                     *)
(*   "a" Latin letter, "sp" space, "d1" digit one, "alef" Arabic letter,    *)
(*   "acomma" Arabic comma U+060C, "adigit" Arabic-Indic digit, "he" Hebrew *)
(*   letter, "zh" CJK ideograph, "emo" U+1F600, "man" U+1F468, "zwj"        *)
(*   U+200D, "vs16" U+FE0F, "keycap" U+20E3, "ri" regional indicator,       *)
(*   "lf" U+000A, "cr" U+000D.                                              *)

CodePointsOf(g) == {g[i] : i \in 1..Len(g)}

\* The code points inside the intervals isEmoji tests on the leading code
\* point (cp >= 0x1F000 and the symbol blocks below it).
EmojiLeadCodePoints == {"emo", "man", "ri"}

\* isEmoji(grapheme): leading code point in an emoji interval, or the cluster
\* holds the keycap combiner U+20E3.  (The (c)/(r)/TM + VS16 test concerns code
\* points the model does not hold.)
isEmoji(g) ==
    \/ Head(g) \in EmojiLeadCodePoints
    \/ "keycap" \in CodePointsOf(g)

\* FontLoader.SCRIPT_FONTS, in table order: the code points each entry's
\* regex matches.
SCRIPT_FONTS ==
    << [script |-> "Arabic", cps |-> {"alef", "acomma", "adigit"}],
       [script |-> "Hebrew", cps |-> {"he"}],
       [script |-> "SC",     cps |-> {"zh"}] >>

\* FontLoader.getScriptFont(char): the index of the first entry whose regex
\* matches somewhere in the cluster, 0 when none does.
getScriptFont(g) ==
    LET hits == {e \in 1..Len(SCRIPT_FONTS) : SCRIPT_FONTS[e].cps \cap CodePointsOf(g) # {}}
    IN  IF hits = {} THEN 0 ELSE CHOOSE e \in hits : \A f \in hits : e <= f

\* resolveInternationalFont(char, internationalFonts), internationalFonts being
\* the Map from SCRIPT_FONTS entries to loaded fonts (null: no entry).
resolveInternationalFont(g, internationalFonts) ==
    IF getScriptFont(g) = 0 THEN null ELSE internationalFonts[getScriptFont(g)]

\* The code points matched by [\s\d\p{P}\p{S}]: white space, digits,
\* punctuation and symbols (U+1F600 and the other pictographs are \p{So}).
NeutralCodePoints == {"sp", "d1", "acomma", "adigit", "emo", "man", "ri", "lf", "cr"}

\* /^[\s\d\p{P}\p{S}]*$/u.test(grapheme)
isNeutral(g) == CodePointsOf(g) \subseteq NeutralCodePoints

isLineBreak(g) == g = <<"lf">> \/ g = <<"cr">>

-----------------------------------------------------------------------------
(* segmentByFont *)

\* Longest cluster sequence given to segmentByFont.
MaxClusters == 3

\* The clusters given to segmentByFont.
SegClusters ==
    { <<"a">>, <<"sp">>, <<"alef">>, <<"acomma">>, <<"he">>, <<"emo">>, <<"lf">> }

\* The font objects: distinct handles for the primary font, the generic
\* fallback font and the fonts of the SCRIPT_FONTS entries.
FontOf == [primary |-> 1, fallback |-> 2, Arabic |-> 3, Hebrew |-> 4, SC |-> 5]

\* The internationalFonts maps: per SCRIPT_FONTS entry its font, or null
\* when the entry has no loaded font.
InternationalFontMaps ==
    {m \in [1..Len(SCRIPT_FONTS) -> {null} \cup {FontOf[s] : s \in {"Arabic", "Hebrew", "SC"}}] :
        \A e \in 1..Len(SCRIPT_FONTS) : m[e] \in {null, FontOf[SCRIPT_FONTS[e].script]}}

\* The emojiCache maps prefetchEmoji can return for these clusters: no entry,
\* an entry without artwork (null), an entry with artwork.
EmojiCaches ==
    { <<>>, [g \in {<<"emo">>} |-> "null"], [g \in {<<"emo">>} |-> "svg"] }

\* An rtl BidiRun holds no line break: U+000A and U+000D are paragraph
\* separators, which the bidi algorithm leaves at the base level 0.
MayHold(direction, graphemes) ==
    direction = "rtl" => \A k \in 1..Len(graphemes) : CodePointsOf(graphemes[k]) \cap {"lf", "cr"} = {}

SegStart ==
    /\ segGraphemes \in SeqsUpTo(SegClusters, MaxClusters)
    /\ segArgs \in [primaryFont : {null, FontOf.primary},
                    internationalFonts : InternationalFontMaps,
                    fallbackFont : {null, FontOf.fallback},
                    emojiCache : EmojiCaches,
                    enableEmoji : BOOLEAN,
                    direction : {"ltr", "rtl"}]
    /\ segArgs.internationalFonts[3] = null
    /\ segArgs.enableEmoji = FALSE => segArgs.emojiCache = <<>>
    /\ MayHold(segArgs.direction, segGraphemes)
    /\ segRuns = <<>>
    /\ segPc = "call"

SegIdle ==
    /\ segGraphemes = <<>>
    /\ segArgs = <<>>
    /\ segRuns = <<>>
    /\ segPc = "idle"

\* let currentRun = null
NoRun == [type |-> "none", chars |-> <<>>, font |-> null, graphemes |-> <<>>, emojiSvg |-> "null"]

\* pushRun() that forgets the open run.
pushRunDropsRun(runs, currentRun) == runs

\* pushRun(): the open run, if any, is appended to runs.
pushRun(runs, currentRun) ==
    IF currentRun.type # "none" /\ Len(currentRun.chars) > 0
    THEN Append(runs, currentRun) ELSE runs

\* emojiCache.has(grapheme) && emojiCache.get(grapheme)
HasArtwork(emojiCache, g) == g \in DOMAIN emojiCache /\ emojiCache[g] # "null"

\* The emoji test of the loop.
TakesEmoji(g, args) ==
    args.enableEmoji /\ isEmoji(g) /\ HasArtwork(args.emojiCache, g)

\* PriorityFont with the primary font tried before the script font.
PriorityFontPrimaryFirst(g, args) ==
    LET scriptFont == resolveInternationalFont(g, args.internationalFonts)
        font == IF args.primaryFont # null THEN args.primaryFont ELSE scriptFont
    IN  IF font = null /\ args.fallbackFont # null THEN args.fallbackFont ELSE font

\* const scriptFont = ...; let font = scriptFont || primaryFont;
\* if (!font && fallbackFont) font = fallbackFont;
PriorityFont(g, args) ==
    LET scriptFont == resolveInternationalFont(g, args.internationalFonts)
        font == IF scriptFont # null THEN scriptFont ELSE args.primaryFont
    IN  IF font = null /\ args.fallbackFont # null THEN args.fallbackFont ELSE font

\* InheritsRunFont without the test of the run direction.
InheritsRunFontAnyDirection(g, currentRun, args) ==
    /\ resolveInternationalFont(g, args.internationalFonts) = null
    /\ currentRun.type = "text"
    /\ isNeutral(g)

\* The condition under which a cluster of an rtl run takes the font of the
\* open run: direction === 'rtl' && !scriptFont && currentRun &&
\* currentRun.type === 'text', and the cluster is neutral.
InheritsRunFont(g, currentRun, args) ==
    /\ args.direction = "rtl"
    /\ resolveInternationalFont(g, args.internationalFonts) = null
    /\ currentRun.type = "text"
    /\ isNeutral(g)

\* "Determine which font to use": the font of a cluster that is neither a
\* line break nor an emoji with artwork.
ResolveFont(g, currentRun, args) ==
    IF InheritsRunFont(g, currentRun, args) THEN currentRun.font ELSE PriorityFont(g, args)

\* ContinuesRun that never finds the fonts identical.
ContinuesRunNever(currentRun, font) == FALSE

\* "Continue current text run if same font".
ContinuesRun(currentRun, font) == currentRun.type = "text" /\ currentRun.font = font

SingleRun(type, g, font, svg) ==
    [type |-> type, chars |-> g, font |-> font, graphemes |-> <<g>>, emojiSvg |-> svg]

\* One iteration of the loop: st is [runs, currentRun].
SegmentStep(st, g, args) ==
    IF isLineBreak(g)
    THEN [runs |-> Append(pushRun(st.runs, st.currentRun), SingleRun("newline", g, null, "null")),
          currentRun |-> NoRun]
    ELSE IF TakesEmoji(g, args)
    THEN [runs |-> Append(pushRun(st.runs, st.currentRun),
                          SingleRun("emoji", g, null, args.emojiCache[g])),
          currentRun |-> NoRun]
    ELSE LET font == ResolveFont(g, st.currentRun, args) IN
         IF font = null
         THEN [runs |-> Append(pushRun(st.runs, st.currentRun), SingleRun("fallback", g, null, "null")),
               currentRun |-> NoRun]
         ELSE IF ContinuesRun(st.currentRun, font)
         THEN [runs |-> st.runs,
               currentRun |-> [st.currentRun EXCEPT !.chars = @ \o g,
                                                    !.graphemes = Append(@, g)]]
         ELSE [runs |-> pushRun(st.runs, st.currentRun),
               currentRun |-> SingleRun("text", g, font, "null")]

RECURSIVE SegmentLoop(_, _, _, _)
SegmentLoop(graphemes, k, st, args) ==
    IF k > Len(graphemes) THEN st
    ELSE SegmentLoop(graphemes, k + 1, SegmentStep(st, graphemes[k], args), args)

segmentByFont(graphemes, args) ==
    LET st == SegmentLoop(graphemes, 1, [runs |-> <<>>, currentRun |-> NoRun], args)
    IN  pushRun(st.runs, st.currentRun)

SegmentByFontCall ==
    /\ segPc = "call"
    /\ segRuns' = segmentByFont(segGraphemes, segArgs)
    /\ segPc' = "done"
    /\ UNCHANGED <<segGraphemes, segArgs>>

-----------------------------------------------------------------------------
(* segmentGraphemes and prefetchEmoji *)

\* Bound on the number of code points of a text.
MaxCodePoints == 4

\* The code points the prefetched texts are made of.
PrefetchCodePoints == {"a", "d1", "emo", "man", "zwj", "vs16", "keycap", "ri", "lf", "cr"}

\* Grapheme_Cluster_Break classes of the code points (UAX #29), as used by
\* Intl.Segmenter with granularity 'grapheme'.
ExtendCodePoints == {"vs16", "keycap"}

ExtPictCodePoints == {"emo", "man"}

ControlCodePoints == {"lf", "cr"}

Last(g) == g[Len(g)]

RECURSIVE StripExtend(_)
\* The cluster without its trailing Extend code points.
StripExtend(g) ==
    IF g # <<>> /\ Last(g) \in ExtendCodePoints
    THEN StripExtend(SubSeq(g, 1, Len(g) - 1))
    ELSE g

RECURSIVE TrailingRI(_)
\* Number of regional indicators the cluster ends with.
TrailingRI(g) ==
    IF g # <<>> /\ Last(g) = "ri"
    THEN 1 + TrailingRI(SubSeq(g, 1, Len(g) - 1))
    ELSE 0

\* No cluster boundary between the open cluster g and the code point cp:
\* GB3 (CR x LF), GB4/GB5 (break around controls), GB9 (x Extend, x ZWJ),
\* GB11 (ExtPict Extend* ZWJ x ExtPict), GB12/GB13 (regional indicator pairs).
NoBoundary(g, cp) ==
    IF Last(g) = "cr" /\ cp = "lf" THEN TRUE
    ELSE IF Last(g) \in ControlCodePoints \/ cp \in ControlCodePoints THEN FALSE
    ELSE IF cp \in ExtendCodePoints \/ cp = "zwj" THEN TRUE
    ELSE IF Last(g) = "zwj" /\ cp \in ExtPictCodePoints
        THEN LET before == StripExtend(SubSeq(g, 1, Len(g) - 1))
             IN  before # <<>> /\ Last(before) \in ExtPictCodePoints
    ELSE IF Last(g) = "ri" /\ cp = "ri" THEN TrailingRI(g) % 2 = 1
    ELSE FALSE

RECURSIVE GraphemeLoop(_, _, _, _)
GraphemeLoop(text, i, done, open) ==
    IF i > Len(text) THEN (IF open = <<>> THEN done ELSE Append(done, open))
    ELSE IF open = <<>> THEN GraphemeLoop(text, i + 1, done, <<text[i]>>)
    ELSE IF NoBoundary(open, text[i])
        THEN GraphemeLoop(text, i + 1, done, Append(open, text[i]))
    ELSE GraphemeLoop(text, i + 1, Append(done, open), <<text[i]>>)

\* segmentGraphemes(text): the extended grapheme clusters of the text.
segmentGraphemes(text) == GraphemeLoop(text, 1, <<>>, <<>>)

\* c !== '\n' && c !== '\r' && isEmoji(c)
IsEmojiChar(c) == c # <<"lf">> /\ c # <<"cr">> /\ isEmoji(c)

\* The sequence as it is: every occurrence kept.
KeepAll(chars) == chars

RECURSIVE UniqueLoop(_, _, _)
UniqueLoop(chars, i, out) ==
    IF i > Len(chars) THEN out
    ELSE IF \E k \in 1..Len(out) : out[k] = chars[i]
        THEN UniqueLoop(chars, i + 1, out)
    ELSE UniqueLoop(chars, i + 1, Append(out, chars[i]))

\* [...new Set(emojiChars)]: first occurrences, in order.
Unique(chars) == UniqueLoop(chars, 1, <<>>)

\* prefetchEmoji(chars): the clusters loadEmojiSvg is called with.
prefetchEmoji(chars) == Unique(SelectSeq(chars, IsEmojiChar))

PrefetchStart ==
    /\ pfText \in SeqsUpTo(PrefetchCodePoints, MaxCodePoints)
    /\ pfEnableEmoji \in BOOLEAN
    /\ pfLookups = <<>>
    /\ pfPc = "call"

PrefetchIdle ==
    /\ pfText = <<>>
    /\ pfEnableEmoji = TRUE
    /\ pfLookups = <<>>
    /\ pfPc = "call"

\* generateTextPaths, lines 297-299: the clusters of the whole text, and the
\* batch of lookups when emoji are enabled.
PrefetchCall ==
    /\ pfPc = "call"
    /\ pfLookups' = IF pfEnableEmoji THEN prefetchEmoji(segmentGraphemes(pfText)) ELSE <<>>
    /\ pfPc' = "done"
    /\ UNCHANGED <<pfText, pfEnableEmoji>>

-----------------------------------------------------------------------------
(* render() and generateTextPaths: the two batches and the layout pass *)

\* Number of text nodes of the document.
NNodes == 2

\* Bound on the number of clusters of a text node.
MaxNodeClusters == 2

Nodes == 1..NNodes

\* The three promises of the first Promise.all of render().
FontTasks == {"primary", "international", "fallback"}

\* loadPrimaryFont and loadFallbackFont catch and resolve to null;
\* loadInternationalFonts has no catch.
MayReject == {"international"}

\* The clusters the nodes are made of.
NodeClusters == {<<"a">>, <<"emo">>, <<"ri", "ri">>}

SetOf(seq) == {seq[i] : i \in 1..Len(seq)}

\* The kinds of input value: a string and a Buffer are converted, anything
\* else is not.
Inputs == {"string", "buffer", "number", "null"}

\* Every input is taken for an SVG source.
IsAnything(input) == TRUE

\* typeof input === 'string' || Buffer.isBuffer(input)
IsSvgSource(input) == input \in {"string", "buffer"}

RenderStart ==
    /\ rInput \in Inputs
    /\ rPc = "convert"
    /\ rFontTask = [t \in FontTasks |-> "idle"]
    /\ rEnableEmoji \in BOOLEAN
    /\ nText \in [Nodes -> SeqsUpTo(NodeClusters, MaxNodeClusters)]
    /\ nPc = [n \in Nodes |-> "idle"]
    /\ nPending = [n \in Nodes |-> {}]
    /\ nFetched = [n \in Nodes |-> 0]
    /\ nWalked = [n \in Nodes |-> 0]
    /\ running = 0

RenderIdle ==
    /\ rInput = "string"
    /\ rPc = "convert"
    /\ rFontTask = [t \in FontTasks |-> "idle"]
    /\ rEnableEmoji = TRUE
    /\ nText = [n \in Nodes |-> <<>>]
    /\ nPc = [n \in Nodes |-> "idle"]
    /\ nPending = [n \in Nodes |-> {}]
    /\ nFetched = [n \in Nodes |-> 0]
    /\ nWalked = [n \in Nodes |-> 0]
    /\ running = 0

\* render() up to its first await: detectAndConvert, which throws 'Unsupported
\* input format' for an input that is neither a string nor a Buffer (the catch
\* of render() rethrows), then extractAllTextContent and the creation of the
\* three font promises.
DetectAndConvert ==
    /\ running = 0
    /\ rPc = "convert"
    /\ IF IsSvgSource(rInput)
       THEN /\ rPc' = "fonts"
            /\ rFontTask' = [t \in FontTasks |-> "pending"]
       ELSE /\ rPc' = "failed"
            /\ UNCHANGED rFontTask
    /\ UNCHANGED <<rInput, rEnableEmoji, nText, nPc, nPending, nFetched, nWalked, running>>

\* One of the font promises settles.  The promises go on after render() has
\* failed: Promise.all does not cancel them.
FontTaskSettles(t) ==
    /\ running = 0
    /\ rPc \in {"fonts", "failed"}
    /\ rFontTask[t] = "pending"
    /\ \E outcome \in {"fulfilled"} \cup (IF t \in MayReject THEN {"rejected"} ELSE {}) :
          rFontTask' = [rFontTask EXCEPT ![t] = outcome]
    /\ UNCHANGED <<rPc, rInput, rEnableEmoji, nText, nPc, nPending, nFetched, nWalked, running>>

\* await Promise.all([...fonts]) resumes: generateTextPaths is called for
\* every text entry and runs up to its first await, FontLoader.getHb().
FontsJoined ==
    /\ running = 0
    /\ rPc = "fonts"
    /\ \A t \in FontTasks : rFontTask[t] = "fulfilled"
    /\ rPc' = "paths"
    /\ nPc' = [n \in Nodes |-> "getHb"]
    /\ UNCHANGED <<rFontTask, rInput, rEnableEmoji, nText, nPending, nFetched, nWalked, running>>

\* await Promise.all([...fonts]) throws: render() rejects.
FontsRejected ==
    /\ running = 0
    /\ rPc = "fonts"
    /\ \E t \in FontTasks : rFontTask[t] = "rejected"
    /\ rPc' = "failed"
    /\ UNCHANGED <<rFontTask, rInput, rEnableEmoji, nText, nPc, nPending, nFetched, nWalked, running>>

\* await FontLoader.getHb() resumes in node n: getBidiRuns, segmentGraphemes,
\* then either the prefetch batch (enableEmoji) or, with no await in between,
\* the layout loop.
GetHbResolves(n) ==
    /\ running = 0
    /\ nPc[n] = "getHb"
    /\ IF rEnableEmoji
       THEN /\ nPc' = [nPc EXCEPT ![n] = "prefetch"]
            /\ nPending' = [nPending EXCEPT ![n] = SetOf(prefetchEmoji(nText[n]))]
            /\ nFetched' = [nFetched EXCEPT ![n] = Len(prefetchEmoji(nText[n]))]
            /\ UNCHANGED running
       ELSE /\ nPc' = [nPc EXCEPT ![n] = "layout"]
            /\ running' = n
            /\ UNCHANGED <<nPending, nFetched>>
    /\ UNCHANGED <<rPc, rFontTask, rInput, rEnableEmoji, nText, nWalked>>

\* await FontLoader.getHb() throws in node n.
GetHbRejects(n) ==
    /\ running = 0
    /\ nPc[n] = "getHb"
    /\ nPc' = [nPc EXCEPT ![n] = "failed"]
    /\ UNCHANGED <<rPc, rFontTask, rInput, rEnableEmoji, nText, nPending, nFetched, nWalked, running>>

\* One loadEmojiSvg promise of node n settles (artwork or null: loadEmojiSvg
\* catches).
EmojiSettles(n, g) ==
    /\ running = 0
    /\ nPc[n] = "prefetch"
    /\ g \in nPending[n]
    /\ nPending' = [nPending EXCEPT ![n] = @ \ {g}]
    /\ UNCHANGED <<rPc, rFontTask, rInput, rEnableEmoji, nText, nPc, nFetched, nWalked, running>>

\* The layout starts whatever is pending.
BatchResolvedOrNot(n) == TRUE

\* Promise.all(unique.map(loadEmojiSvg)) of node n is resolved.
BatchResolved(n) == nPending[n] = {}

\* await prefetchEmoji(allGraphemes) resumes in node n: the layout loop starts.
PrefetchJoined(n) ==
    /\ running = 0
    /\ nPc[n] = "prefetch"
    /\ BatchResolved(n)
    /\ nPc' = [nPc EXCEPT ![n] = "layout"]
    /\ running' = n
    /\ UNCHANGED <<rPc, rFontTask, rInput, rEnableEmoji, nText, nPending, nFetched, nWalked>>

\* One cluster of node n is segmented, shaped and assembled; the loop reads
\* the fonts it was passed and emojiCache, and awaits nothing.
WalkCluster(n) ==
    /\ running = n
    /\ nPc[n] = "layout"
    /\ nWalked[n] < Len(nText[n])
    /\ nWalked' = [nWalked EXCEPT ![n] = @ + 1]
    /\ UNCHANGED <<rPc, rFontTask, rInput, rEnableEmoji, nText, nPc, nPending, nFetched, running>>

\* generateTextPaths of node n returns its content.
LayoutReturns(n) ==
    /\ running = n
    /\ nPc[n] = "layout"
    /\ nWalked[n] = Len(nText[n])
    /\ nPc' = [nPc EXCEPT ![n] = "done"]
    /\ running' = 0
    /\ UNCHANGED <<rPc, rFontTask, rInput, rEnableEmoji, nText, nPending, nFetched, nWalked>>

\* await Promise.all(textEntries.map(...)) resumes: the replacements are made
\* and renderSVGToPNG is called.
PathsJoined ==
    /\ running = 0
    /\ rPc = "paths"
    /\ \A n \in Nodes : nPc[n] = "done"
    /\ rPc' = "rasterizing"
    /\ UNCHANGED <<rFontTask, rInput, rEnableEmoji, nText, nPc, nPending, nFetched, nWalked, running>>

\* await SVGRenderer.renderSVGToPNG(processedSvg) settles: the PNG is handed
\* to _handleOutput, or render() rejects.
Rasterized ==
    /\ running = 0
    /\ rPc = "rasterizing"
    /\ rPc' \in {"done", "failed"}
    /\ UNCHANGED <<rFontTask, rInput, rEnableEmoji, nText, nPc, nPending, nFetched, nWalked, running>>

\* await Promise.all(textEntries.map(...)) throws: render() rejects, the
\* other nodes go on.
PathsRejected ==
    /\ running = 0
    /\ rPc = "paths"
    /\ \E n \in Nodes : nPc[n] = "failed"
    /\ rPc' = "failed"
    /\ UNCHANGED <<rFontTask, rInput, rEnableEmoji, nText, nPc, nPending, nFetched, nWalked, running>>

-----------------------------------------------------------------------------
(* shapeAndRender *)

\* Bound on the number of glyphs of a shaped run.
MaxGlyphs == 3

\* Glyph ids: 0 is .notdef, glyph 1 has an outline, glyph 2 has none
\* (glyphToPath returns an empty string, as for a space).
GlyphIds == {0, 1, 2}

WithOutline == {1}

\* The glyph records the shaper may return, in font units.
ShapedGlyphs == [g : GlyphIds, ax : {0, 500}, dx : {-700, 0}, dy : {0, 100}]

\* x, y, fontSize and upem of a call.
ShapeOrigins == [x : {0, 10}, y : {20}, fontSize : {16}, upem : {1000}]

\* Lengths are kept in units of 1/upem pixel: v * scale, scale being
\* fontSize / upem, is the integer v * fontSize.
Scaled(v, o) == v * o.fontSize

Pixels(v, o) == v * o.upem

\* glyphId !== 0 and glyphToPath(glyphId) is not empty
EmitsPath(glyph) == glyph.g # 0 /\ glyph.g \in WithOutline

\* The advance of a glyph, taken only when it is drawn.
AdvanceIfDrawn(glyph, o) == IF EmitsPath(glyph) THEN Scaled(glyph.ax, o) ELSE 0

\* xAdvance = glyph.ax * scale; currentX += xAdvance for every glyph.
Advance(glyph, o) == Scaled(glyph.ax, o)

RECURSIVE ShapeLoop(_, _, _, _, _)
ShapeLoop(glyphs, i, currentX, parts, o) ==
    IF i > Len(glyphs) THEN [parts |-> parts, currentX |-> currentX]
    ELSE LET glyph == glyphs[i]
             gx == currentX + Scaled(glyph.dx, o)
             gy == Pixels(o.y, o) - Scaled(glyph.dy, o)
             drawn == IF EmitsPath(glyph)
                      THEN Append(parts, [g |-> glyph.g, gx |-> gx, gy |-> gy])
                      ELSE parts
         IN  ShapeLoop(glyphs, i + 1, currentX + Advance(glyph, o), drawn, o)

\* shapeAndRender(...): the parts and advanceX = currentX - x.
shapeAndRender(glyphs, x, o) ==
    LET end == ShapeLoop(glyphs, 1, x, <<>>, o)
    IN  [parts |-> end.parts, advanceX |-> end.currentX - x]

ShapeStart ==
    /\ shGlyphs \in SeqsUpTo(ShapedGlyphs, MaxGlyphs)
    /\ shOrigin \in ShapeOrigins
    /\ shParts = <<>>
    /\ shCursor = Pixels(shOrigin.x, shOrigin)
    /\ shPc = "call"

ShapeIdle ==
    /\ shGlyphs = <<>>
    /\ shOrigin = [x |-> 0, y |-> 20, fontSize |-> 16, upem |-> 1000]
    /\ shParts = <<>>
    /\ shCursor = 0
    /\ shPc = "call"

\* generateTextPaths, lines 335-344: a text run is shaped at the cursor and
\* the cursor moves by advanceX.
ShapeAndRenderCall ==
    /\ shPc = "call"
    /\ LET result == shapeAndRender(shGlyphs, shCursor, shOrigin)
       IN  /\ shParts' = result.parts
           /\ shCursor' = shCursor + result.advanceX
    /\ shPc' = "done"
    /\ UNCHANGED <<shGlyphs, shOrigin>>

-----------------------------------------------------------------------------
(* generateTextPaths: the layout loop and the anchoring of the fragment *)

\* Bound on the number of clusters of the node.
MaxAsmClusters == 2

\* The clusters of the node: Latin letter, CJK ideograph, emoji, '\n', '\r'.
\* A text made of these has embedding level 0 throughout, so getBidiRuns
\* returns one ltr run for it (none for the empty text).
AsmClusters == {<<"a">>, <<"zh">>, <<"emo">>, <<"lf">>, <<"cr">>}

\* The values of the text-anchor attribute.
TextAnchors == {"start", "middle", "end"}

\* featureString: '' or the tags of font-feature-settings.
FeatureStrings == {"", "ss01"}

\* What loadEmojiSvg resolves to for an emoji cluster: null (no artwork in
\* the map) or the <svg> document of the cluster.
Artworks == {"null", "svg"}

\* The code points each font has a glyph for.
GlyphCoverage ==
    [f \in {FontOf.primary, FontOf.fallback, FontOf.SC, FontOf.Arabic} |->
        IF f = FontOf.SC THEN {"a", "zh"}
        ELSE IF f = FontOf.Arabic THEN {"alef", "adigit"}
        ELSE {"a"}]

\* FontLoader.isCJK(char)
isCJK(g) == "zh" \in CodePointsOf(g)

\* The code points of a sequence of clusters, each with the index of its
\* cluster.
RECURSIVE Flatten(_, _)
Flatten(graphemes, k) ==
    IF k > Len(graphemes) THEN <<>>
    ELSE [i \in 1..Len(graphemes[k]) |-> [cp |-> graphemes[k][i], cl |-> k]]
            \o Flatten(graphemes, k + 1)

\* hb.shape + buffer.json() for the clusters of a run: one glyph per code
\* point, id 0 (.notdef) where the font has no glyph, cl the cluster of the
\* glyph, advances of half an em.
Shape(font, graphemes) ==
    LET cps == Flatten(graphemes, 1)
    IN  [i \in 1..Len(cps) |->
            [g |-> IF cps[i].cp \in GlyphCoverage[font] THEN 1 ELSE 0,
             cl |-> cps[i].cl, ax |-> 500, dx |-> 0, dy |-> 0]]

\* A line height of one font size.
LineHeightOfSize(o) == Pixels(o.fontSize, o)

\* lineHeight = fontSize * 1.2
LineHeight(o) == (Pixels(o.fontSize, o) * 12) \div 10

\* emojiY = currentY - fontSize * 0.75
EmojiRise(o) == (Pixels(o.fontSize, o) * 3) \div 4

\* FontLoader.isCJK(char) ? fontSize : fontSize * 0.6
FallbackAdvance(g, o) ==
    IF isCJK(g) THEN Pixels(o.fontSize, o) ELSE (Pixels(o.fontSize, o) * 6) \div 10

\* run.emojiSvg.match(/<svg[^>]*>(.*)<\/svg>/s)?.[1] is not empty
EmojiContent(svg) == svg = "svg"

\* The features of every run are the feature string.
FeaturesAlways(run, primaryFont, featureString) == featureString

\* (run.font === primaryFont) ? featureString : ''
FeaturesFor(run, primaryFont, featureString) ==
    IF run.font = primaryFont THEN featureString ELSE ""

\* The drawn paths of a shaped run as parts, each with the cluster of its
\* glyph; first is the number of clusters before the run.
PathParts(glyphs, placed, first) ==
    LET drawn == SelectSeq(glyphs, EmitsPath)
    IN  [k \in 1..Len(placed) |->
            [kind |-> "path", cl |-> first + drawn[k].cl, x |-> placed[k].gx, y |-> placed[k].gy]]

\* One iteration of `for (const run of runs)': st holds currentX, currentY,
\* parts, the clusters gone through, the trace and whether an error escaped.
AssembleStep(st, run, node, fonts, throws) ==
    LET o == [x |-> node.x, y |-> st.y \div node.upem, fontSize |-> node.fontSize, upem |-> node.upem]
        seen == st.seen + Len(run.graphemes)
        Traced(x, y, parts, features) ==
            [st EXCEPT !.x = x, !.y = y, !.parts = parts, !.seen = seen,
                       !.trace = Append(@, [x |-> x, y |-> y, n |-> Len(parts), features |-> features])]
    IN  IF run.type = "newline"
        THEN IF run.chars = <<"lf">>
             THEN Traced(Pixels(node.x, o), st.y + LineHeight(o), st.parts, "")
             ELSE Traced(st.x, st.y, st.parts, "")
        ELSE IF run.type = "emoji"
        THEN IF EmojiContent(run.emojiSvg)
             THEN Traced(st.x + Pixels(o.fontSize, o), st.y,
                         Append(st.parts, [kind |-> "emoji", cl |-> seen, x |-> st.x, y |-> st.y - EmojiRise(o)]),
                         "")
             ELSE Traced(st.x, st.y, st.parts, "")
        ELSE IF run.type = "fallback"
        THEN Traced(st.x + FallbackAdvance(run.chars, o), st.y,
                    Append(st.parts, [kind |-> "text", cl |-> seen, x |-> st.x, y |-> st.y]),
                    "")
        ELSE IF throws
        THEN [st EXCEPT !.threw = TRUE]
        ELSE LET shaped == shapeAndRender(Shape(run.font, run.graphemes), st.x, o)
             IN  Traced(st.x + shaped.advanceX, st.y,
                        st.parts \o PathParts(Shape(run.font, run.graphemes), shaped.parts, st.seen),
                        FeaturesFor(run, fonts.primaryFont, node.featureString))

RECURSIVE AssembleLoop(_, _, _, _, _, _)
AssembleLoop(runs, r, st, node, fonts, throws) ==
    IF r > Len(runs) \/ st.threw THEN st
    ELSE AssembleLoop(runs, r + 1, AssembleStep(st, runs[r], node, fonts, throws), node, fonts, throws)

\* The text-anchor the call is made with: render() passes enableEmoji,
\* fontWeight and featureString only, so the option takes its default.
TextAnchorOption(entry, node) == IF entry = "render" THEN "start" ELSE node.textAnchor

\* Use fallback only when no primary font: effectiveFallback of render().
FallbackArgument(entry, fonts) ==
    IF entry = "render" /\ fonts.primaryFont # null THEN null ELSE fonts.fallbackFont

\* The arguments of segmentByFont for the one BidiRun of the node.
SegmentArgs(entry, fonts, emoji) ==
    [primaryFont |-> fonts.primaryFont,
     internationalFonts |-> fonts.internationalFonts,
     fallbackFont |-> FallbackArgument(entry, fonts),
     emojiCache |-> emoji.emojiCache,
     enableEmoji |-> emoji.enableEmoji,
     direction |-> "ltr"]

\* The fragment as it is, whatever the anchor.
AnchoredNever(textAnchor, parts, currentX, x) ==
    [status |-> "returned", wrapped |-> FALSE, offset |-> 0, content |-> parts]

\* Lines 348-353: the fragment as it is for 'start', else in one group
\* translated by -totalWidth / 2 ('middle') or -totalWidth.
Anchored(textAnchor, parts, currentX, x) ==
    IF textAnchor = "start"
    THEN [status |-> "returned", wrapped |-> FALSE, offset |-> 0, content |-> parts]
    ELSE [status |-> "returned", wrapped |-> TRUE,
          offset |-> IF textAnchor = "middle" THEN (0 - (currentX - x)) \div 2 ELSE 0 - (currentX - x),
          content |-> parts]

\* The rejection of generateTextPaths.
Threw == [status |-> "threw", wrapped |-> FALSE, offset |-> 0, content |-> <<>>]

\* generateTextPaths has not settled.
Pending == [status |-> "pending", wrapped |-> FALSE, offset |-> 0, content |-> <<>>]

AssembleStart ==
    /\ asEntry \in {"render", "direct"}
    /\ asNode \in [graphemes : SeqsUpTo(AsmClusters, MaxAsmClusters),
                   textAnchor : TextAnchors,
                   featureString : FeatureStrings,
                   x : {10}, y : {40}, fontSize : {20}, upem : {1000}]
    /\ asFonts \in [primaryFont : {null, FontOf.primary},
                    internationalFonts : {m \in InternationalFontMaps : m[1] = null /\ m[2] = null},
                    fallbackFont : {null, FontOf.fallback}]
    /\ asEmoji \in [enableEmoji : BOOLEAN,
                    emojiCache : {<<>>} \cup {[g \in {<<"emo">>} |-> a] : a \in Artworks}]
    /\ (asEmoji.emojiCache # <<>>) =
          (asEmoji.enableEmoji /\ \E k \in 1..Len(asNode.graphemes) : asNode.graphemes[k] = <<"emo">>)
    /\ asShaperThrows \in BOOLEAN
    /\ asRuns = <<>>
    /\ asTrace = <<>>
    /\ asParts = <<>>
    /\ asCursor = [x |-> asNode.x * asNode.upem, y |-> asNode.y * asNode.upem]
    /\ asResult = Pending
    /\ asPc = "call"

AssembleIdle ==
    /\ asEntry = "direct"
    /\ asNode = <<>>
    /\ asFonts = <<>>
    /\ asEmoji = <<>>
    /\ asShaperThrows = FALSE
    /\ asRuns = <<>>
    /\ asTrace = <<>>
    /\ asParts = <<>>
    /\ asCursor = <<>>
    /\ asResult = Pending
    /\ asPc = "idle"

\* generateTextPaths from line 301 on: the runs of the BidiRun are laid out
\* and the fragment is anchored; an error of the shaper escapes the loop.
GenerateTextPathsCall ==
    /\ asPc = "call"
    /\ LET runs == segmentByFont(asNode.graphemes, SegmentArgs(asEntry, asFonts, asEmoji))
           end == AssembleLoop(runs, 1,
                               [x |-> asCursor.x, y |-> asCursor.y, parts |-> <<>>, seen |-> 0,
                                trace |-> <<>>, threw |-> FALSE],
                               asNode, asFonts, asShaperThrows)
       IN  /\ asRuns' = runs
           /\ asTrace' = end.trace
           /\ asParts' = end.parts
           /\ asCursor' = [x |-> end.x, y |-> end.y]
           /\ asResult' = IF end.threw THEN Threw
                          ELSE Anchored(TextAnchorOption(asEntry, asNode), end.parts, end.x,
                                        asNode.x * asNode.upem)
    /\ asPc' = "done"
    /\ UNCHANGED <<asEntry, asNode, asFonts, asEmoji, asShaperThrows>>

-----------------------------------------------------------------------------
(* loadInternationalFonts: the font chain of one script *)

\* Bound on the number of candidates of a chain (the Arabic chain has four).
MaxChain == 4

\* What _fetchGoogleFont does for a candidate: resolves to a font, resolves
\* to null (response not ok, no url in the css), or raises (fetch rejects,
\* the font does not parse).
FetchOutcomes == {"font", "none", "throws"}

ChainStart ==
    /\ chOutcomes \in SeqsUpTo(FetchOutcomes, MaxChain)
    /\ chOutcomes # <<>>
    /\ chNext = 0
    /\ chTried = {}
    /\ chFont = null
    /\ chPc = "call"

ChainIdle ==
    /\ chOutcomes = <<>>
    /\ chNext = 0
    /\ chTried = {}
    /\ chFont = null
    /\ chPc = "idle"

\* The callback of entries.map is entered: try, for, the first call of
\* _fetchGoogleFont.
ChainEnter ==
    /\ chPc = "call"
    /\ chNext' = 1
    /\ chTried' = {1}
    /\ chPc' = "fetching"
    /\ UNCHANGED <<chOutcomes, chFont>>

\* await this._fetchGoogleFont(tryFont, weight) resolves to a font:
\* return { entry, font }.
CandidateLoads ==
    /\ chPc = "fetching"
    /\ chOutcomes[chNext] = "font"
    /\ chFont' = chNext
    /\ chPc' = "done"
    /\ UNCHANGED <<chOutcomes, chNext, chTried>>

\* It resolves to null: the loop goes on to the next candidate, or ends and
\* { entry, font: null } is returned.
CandidateMissing ==
    /\ chPc = "fetching"
    /\ chOutcomes[chNext] = "none"
    /\ IF chNext < Len(chOutcomes)
       THEN /\ chNext' = chNext + 1
            /\ chTried' = chTried \cup {chNext + 1}
            /\ UNCHANGED <<chFont, chPc>>
       ELSE /\ chFont' = null
            /\ chPc' = "done"
            /\ UNCHANGED <<chNext, chTried>>
    /\ UNCHANGED chOutcomes

\* It raises: the catch around the loop is entered, the loop is left and
\* { entry, font: null } is returned.
CandidateThrows ==
    /\ chPc = "fetching"
    /\ chOutcomes[chNext] = "throws"
    /\ chFont' = null
    /\ chPc' = "done"
    /\ UNCHANGED <<chOutcomes, chNext, chTried>>

-----------------------------------------------------------------------------
(* render(): the generateTextPaths calls of the text elements, BidiRun by    *)
(* BidiRun, and the replacement of the elements by their fragments          *)

\* Number of text elements of the document.
NLayout == 2

\* Bound on the number of code points of the text elements taken together.
MaxLayoutLen == 3

LayoutNodes == 1..NLayout

\* The code points of the texts: Latin letter, Arabic letter, Arabic-Indic
\* digit, '\n', '\r'.
LayoutCodePoints == {"a", "alef", "adigit", "lf", "cr"}

RECURSIVE TotalLen(_)
TotalLen(texts) == IF texts = <<>> THEN 0 ELSE Len(Head(texts)) + TotalLen(Tail(texts))

\* The texts of n elements holding at most budget code points in all.
RECURSIVE Documents(_, _)
Documents(n, budget) ==
    IF n = 0 THEN {<<>>}
    ELSE UNION {{Append(d, t) : t \in SeqsUpTo(LayoutCodePoints, budget - TotalLen(d))} :
                   d \in Documents(n - 1, budget)}

\* x, y and font-size of the elements, upem of the fonts, and the options
\* render() passes: featureString, and no textAnchor.
LayoutAttributes ==
    [x |-> 10, y |-> 40, fontSize |-> 20, upem |-> 1000, featureString |-> "",
     textAnchor |-> "start"]

\* The code points of the Arabic script.
ArabicScript == {"alef", "adigit"}

\* buffer.guessSegmentProperties(): the direction of the script of the first
\* code point that has one (U+000A and U+000D are of the Common script);
\* ltr when there is none.
RECURSIVE GuessDirection(_)
GuessDirection(text) ==
    IF text = <<>> THEN "ltr"
    ELSE IF Head(text) \in ArabicScript THEN "rtl"
    ELSE IF Head(text) = "a" THEN "ltr"
    ELSE GuessDirection(Tail(text))

\* The direction of the buffer left as guessSegmentProperties set it.
BufferDirectionGuessed(text, direction) == GuessDirection(text)

\* buffer.guessSegmentProperties(); if (direction) buffer.setDirection(direction);
\* direction is "" when the argument is missing.
BufferDirection(text, direction) ==
    IF direction # "" THEN direction ELSE GuessDirection(text)

Reversed(seq) == [i \in 1..Len(seq) |-> seq[Len(seq) + 1 - i]]

\* hb.shape + buffer.json() for a buffer of the given direction: the glyphs
\* come in visual order, which for rtl is the reverse of the logical order.
ShapeDirected(font, graphemes, direction) ==
    IF direction = "rtl" THEN Reversed(Shape(font, graphemes)) ELSE Shape(font, graphemes)

\* One iteration of `for (const run of runs)' inside a BidiRun of the given
\* direction; st holds the locals of the call and the shaper calls made.
LayoutRun(st, run, attrs, fonts, direction) ==
    IF run.type # "text" THEN AssembleStep(st, run, attrs, fonts, FALSE)
    ELSE LET o == [x |-> attrs.x, y |-> st.y \div attrs.upem, fontSize |-> attrs.fontSize,
                   upem |-> attrs.upem]
             shapedAs == BufferDirection(run.chars, direction)
             glyphs == ShapeDirected(run.font, run.graphemes, shapedAs)
             shaped == shapeAndRender(glyphs, st.x, o)
             parts == st.parts \o PathParts(glyphs, shaped.parts, st.seen)
             features == FeaturesFor(run, fonts.primaryFont, attrs.featureString)
         IN  [st EXCEPT !.x = st.x + shaped.advanceX,
                        !.parts = parts,
                        !.seen = st.seen + Len(run.graphemes),
                        !.trace = Append(@, [x |-> st.x + shaped.advanceX, y |-> st.y,
                                             n |-> Len(parts), features |-> features]),
                        !.calls = Append(@, [text |-> run.chars, argument |-> direction,
                                             direction |-> shapedAs, x |-> st.x, y |-> st.y])]

RECURSIVE LayoutLoop(_, _, _, _, _, _)
LayoutLoop(runs, r, st, attrs, fonts, direction) ==
    IF r > Len(runs) THEN st
    ELSE LayoutLoop(runs, r + 1, LayoutRun(st, runs[r], attrs, fonts, direction), attrs, fonts,
                    direction)

\* The arguments of segmentByFont for a BidiRun; the texts hold no emoji, so
\* the emojiCache is empty.
LayoutSegmentArgs(fonts, direction) ==
    [SegmentArgs("render", fonts, [enableEmoji |-> TRUE, emojiCache |-> <<>>])
        EXCEPT !.direction = direction]

\* The body of `for (const bidiRun of bidiRuns)', lines 303-345.
LayoutBidiRun(st, bidiRun, fonts) ==
    LayoutLoop(segmentByFont(segmentGraphemes(bidiRun.text),
                             LayoutSegmentArgs(fonts, bidiRun.direction)),
               1, st, LayoutAttributes, fonts, bidiRun.direction)

\* const parts = []; let currentX = x; let currentY = y;
FreshLocals ==
    [x |-> Pixels(LayoutAttributes.x, LayoutAttributes),
     y |-> Pixels(LayoutAttributes.y, LayoutAttributes),
     parts |-> <<>>, seen |-> 0, trace |-> <<>>, threw |-> FALSE, calls |-> <<>>]

\* The BidiRuns taken from the last to the first.
BidiRunFromEnd(runs, k) == runs[Len(runs) + 1 - k]

\* for (const bidiRun of bidiRuns): the k-th BidiRun laid out is the k-th of
\* the array.
BidiRunAt(runs, k) == runs[k]

\* Every call working on the locals of the first call.
LocalsOfFirst(nodes, n) == nodes[1].st

\* parts, currentX and currentY are locals of each generateTextPaths call.
LocalsOf(nodes, n) == nodes[n].st

\* The source of a text element inside the document.
ElementOf(text) == [kind |-> "element", text |-> text, content |-> <<>>]

\* What a fragment leaves inside the document.
FragmentOf(result) == [kind |-> "fragment", text |-> <<>>, content |-> result.content]

\* svgString.replace(textElement, replacementContent): the first occurrence
\* of the element's source is replaced.
replaceTextElement(doc, textElement, replacementContent) ==
    LET hits == {k \in 1..Len(doc) : doc[k] = textElement}
    IN  IF hits = {} THEN doc
        ELSE [doc EXCEPT ![CHOOSE k \in hits : \A h \in hits : k <= h] = replacementContent]

\* for (let i = 0; i < textEntries.length; i++) processedSvg = replaceTextElement(...)
RECURSIVE ReplaceLoop(_, _, _)
ReplaceLoop(doc, nodes, i) ==
    IF i > Len(nodes) THEN doc
    ELSE ReplaceLoop(replaceTextElement(doc, ElementOf(nodes[i].text), FragmentOf(nodes[i].fragment)),
                     nodes, i + 1)

LayoutStart ==
    /\ lyFonts \in [primaryFont : {null, FontOf.primary},
                    internationalFonts : {m \in InternationalFontMaps : m[2] = null /\ m[3] = null},
                    fallbackFont : {null, FontOf.fallback}]
    /\ \E texts \in Documents(NLayout, MaxLayoutLen) :
          /\ lyNode = [n \in LayoutNodes |->
                          [text |-> texts[n], pc |-> "hb", bidiRuns |-> <<>>, next |-> 0,
                           st |-> FreshLocals, spans |-> <<>>, fragment |-> Pending]]
          /\ lyDoc = [n \in LayoutNodes |-> ElementOf(texts[n])]
    /\ lyPc = "paths"

LayoutIdle ==
    /\ lyFonts = <<>>
    /\ lyNode = <<>>
    /\ lyDoc = <<>>
    /\ lyPc = "idle"

\* generateTextPaths up to the second await: `await FontLoader.getHb()'
\* resolves, the locals are set up and getBidiRuns(text) is computed.
LayoutGetHb(n) ==
    /\ lyPc = "paths"
    /\ lyNode[n].pc = "hb"
    /\ lyNode' = [lyNode EXCEPT ![n].pc = "emoji",
                                ![n].st = FreshLocals,
                                ![n].bidiRuns = getBidiRuns(lyNode[n].text,
                                                            getEmbeddingLevels(lyNode[n].text))]
    /\ UNCHANGED <<lyFonts, lyDoc, lyPc>>

\* `await prefetchEmoji(allGraphemes)' resolves.
LayoutPrefetched(n) ==
    /\ lyPc = "paths"
    /\ lyNode[n].pc = "emoji"
    /\ lyNode' = [lyNode EXCEPT ![n].pc = "runs"]
    /\ UNCHANGED <<lyFonts, lyDoc, lyPc>>

\* One iteration of `for (const bidiRun of bidiRuns)'.  The loop runs without
\* an await; taking each iteration as a step allows every interleaving of
\* the calls the event loop allows, and more.
LayoutBidiRunStep(n) ==
    /\ lyPc = "paths"
    /\ lyNode[n].pc = "runs"
    /\ lyNode[n].next < Len(lyNode[n].bidiRuns)
    /\ LET bidiRun == BidiRunAt(lyNode[n].bidiRuns, lyNode[n].next + 1)
           before == LocalsOf(lyNode, n)
           after == LayoutBidiRun(before, bidiRun, lyFonts)
       IN  lyNode' = [lyNode EXCEPT
                         ![n].next = @ + 1,
                         ![n].st = after,
                         ![n].spans = Append(@, [text |-> bidiRun.text,
                                                 direction |-> bidiRun.direction,
                                                 fromX |-> before.x, fromY |-> before.y,
                                                 toX |-> after.x, toY |-> after.y,
                                                 parts |-> Len(before.parts),
                                                 calls |-> Len(before.calls)])]
    /\ UNCHANGED <<lyFonts, lyDoc, lyPc>>

\* Lines 348-353: the fragment is returned.
LayoutReturn(n) ==
    /\ lyPc = "paths"
    /\ lyNode[n].pc = "runs"
    /\ lyNode[n].next = Len(lyNode[n].bidiRuns)
    /\ lyNode' = [lyNode EXCEPT
                     ![n].pc = "done",
                     ![n].fragment =
                         Anchored(TextAnchorOption("render", LayoutAttributes),
                                  LocalsOf(lyNode, n).parts, LocalsOf(lyNode, n).x,
                                  Pixels(LayoutAttributes.x, LayoutAttributes))]
    /\ UNCHANGED <<lyFonts, lyDoc, lyPc>>

\* index.js, lines 196-209: the Promise.all of the calls resolves and the
\* replacements are applied in the order of the text elements.
LayoutReplace ==
    /\ lyPc = "paths"
    /\ \A n \in LayoutNodes : lyNode[n].pc = "done"
    /\ lyDoc' = ReplaceLoop(lyDoc, lyNode, 1)
    /\ lyPc' = "replaced"
    /\ UNCHANGED <<lyFonts, lyNode>>

-----------------------------------------------------------------------------
(* applyRTLProcessing *)

\* Longest text given to applyRTLProcessing, in code points.
MaxRtlLen == 3

\* The code points of the texts: Latin letter, Arabic letter, Hebrew letter
\* and U+FE0F, which extends the cluster of the code point before it.
RtlCodePoints == {"a", "alef", "he", "vs16"}

\* The code points the test /[U+0600-06FF, U+0750-077F, U+0590-05FF]/ matches.
RtlRange == {"alef", "acomma", "adigit", "he"}

\* /[...]/.test(char) for a cluster, and for the whole text.
HasRtl(g) == CodePointsOf(g) \cap RtlRange # {}

\* currentSegment = { chars: [], isRTL: false }
EmptySegment == [chars |-> <<>>, isRTL |-> FALSE]

\* if (currentSegment.chars.length > 0) segments.push(currentSegment)
PushSegment(segments, segment) ==
    IF Len(segment.chars) > 0 THEN Append(segments, segment) ELSE segments

\* Lines 99-113: the clusters are grouped into segments of one isRTL value.
RECURSIVE SegmentsLoop(_, _, _, _)
SegmentsLoop(chars, i, segments, currentSegment) ==
    IF i > Len(chars) THEN PushSegment(segments, currentSegment)
    ELSE IF HasRtl(chars[i]) # currentSegment.isRTL
    THEN SegmentsLoop(chars, i + 1, PushSegment(segments, currentSegment),
                      [chars |-> <<chars[i]>>, isRTL |-> HasRtl(chars[i])])
    ELSE SegmentsLoop(chars, i + 1, segments,
                      [currentSegment EXCEPT !.chars = Append(@, chars[i])])

\* The clusters of a segment always in stored order.
SegmentCharsStored(segment) == segment.chars

\* segment.isRTL ? segment.chars.reverse() : segment.chars
SegmentChars(segment) ==
    IF segment.isRTL THEN Reversed(segment.chars) ELSE segment.chars

\* Lines 115-122: processedChars.push(...) segment after segment.
RECURSIVE ProcessedChars(_)
ProcessedChars(segments) ==
    IF segments = <<>> THEN <<>>
    ELSE SegmentChars(Head(segments)) \o ProcessedChars(Tail(segments))

applyRTLProcessing(text) ==
    LET chars == segmentGraphemes(text)
    IN  IF ~HasRtl(text) THEN chars
        ELSE ProcessedChars(SegmentsLoop(chars, 1, <<>>, EmptySegment))

RtlStart ==
    /\ rtlText \in SeqsUpTo(RtlCodePoints, MaxRtlLen)
    /\ rtlOut = <<>>
    /\ rtlPc = "call"

RtlIdle ==
    /\ rtlText = <<>>
    /\ rtlOut = <<>>
    /\ rtlPc = "idle"

ApplyRTLProcessingCall ==
    /\ rtlPc = "call"
    /\ rtlOut' = applyRTLProcessing(rtlText)
    /\ rtlPc' = "done"
    /\ UNCHANGED rtlText

-----------------------------------------------------------------------------
(* FontLoader.buildSubstitutionMap *)

\* Longest featureTags array.
MaxTags == 2

\* Largest number of feature records of the GSUB table.
MaxFeatureRecords == 2

\* Number of lookups of the GSUB table.
NLookups == 2

\* The feature tags of fonts and requests.
SubstTags == {"ss01", "ss02"}

\* The subtables of the lookups: coverage.glyphs and substitute.
SubstSubtables ==
    { [glyphs |-> <<1>>, substitute |-> <<3>>],
      [glyphs |-> <<1, 2>>, substitute |-> <<4, 3>>] }

\* gsub.lookups[i]: single substitution (type 1) or ligature (type 4).
SubstLookups == [lookupType : {1, 4}, subtables : {<<t>> : t \in SubstSubtables}]

\* gsub.features[i]: { tag, feature: { lookupListIndexes } }.  The feature
\* list of a font holds one record per script and language system a feature
\* is defined for, so a tag may occur in several records.
FeatureRecords ==
    [tag : SubstTags, lookupListIndexes : {<<i>> : i \in 1..NLookups} \cup {<<1, 2>>}]

\* new Map()
EmptyMap == <<>>

\* map.set(key, value)
MapSet(map, key, value) ==
    [k \in DOMAIN map \cup {key} |-> IF k = key THEN value ELSE map[k]]

\* gsub.features.find(f => f.tag === tag): the index of the first record with
\* the tag, 0 when there is none.
FindFeature(features, tag) ==
    LET hits == {i \in 1..Len(features) : features[i].tag = tag}
    IN  IF hits = {} THEN 0 ELSE CHOOSE i \in hits : \A h \in hits : i <= h

\* Lines 131-135: for (let i = 0; i < glyphs.length; i++)
RECURSIVE GlyphsLoop(_, _, _)
GlyphsLoop(map, subtable, i) ==
    IF i > Len(subtable.glyphs) THEN map
    ELSE GlyphsLoop(IF i <= Len(subtable.substitute)
                    THEN MapSet(map, subtable.glyphs[i], subtable.substitute[i])
                    ELSE map,
                    subtable, i + 1)

\* Lines 126-136: for (const subtable of lookup.subtables)
RECURSIVE SubtablesLoop(_, _, _)
SubtablesLoop(map, subtables, k) ==
    IF k > Len(subtables) THEN map
    ELSE SubtablesLoop(GlyphsLoop(map, subtables[k], 1), subtables, k + 1)

\* Only handle type 1 (single substitution).
HandlesLookup(lookup) == lookup.lookupType = 1

\* Lines 121-137: for (const lookupIdx of feat.feature.lookupListIndexes)
RECURSIVE LookupsLoop(_, _, _, _)
LookupsLoop(map, gsub, indexes, j) ==
    IF j > Len(indexes) THEN map
    ELSE LET lookup == gsub.lookups[indexes[j]]
         IN  LookupsLoop(IF HandlesLookup(lookup) THEN SubtablesLoop(map, lookup.subtables, 1)
                         ELSE map,
                         gsub, indexes, j + 1)

\* Lines 117-138: for (const tag of featureTags)
RECURSIVE TagsLoop(_, _, _, _)
TagsLoop(map, gsub, featureTags, t) ==
    IF t > Len(featureTags) THEN map
    ELSE LET feat == FindFeature(gsub.features, featureTags[t])
         IN  TagsLoop(IF feat = 0 THEN map
                      ELSE LookupsLoop(map, gsub, gsub.features[feat].lookupListIndexes, 1),
                      gsub, featureTags, t + 1)

buildSubstitutionMap(gsub, featureTags) ==
    IF Len(featureTags) = 0 THEN EmptyMap ELSE TagsLoop(EmptyMap, gsub, featureTags, 1)

SubstStart ==
    /\ sbGsub \in [features : SeqsUpTo(FeatureRecords, MaxFeatureRecords),
                   lookups : [1..NLookups -> SubstLookups]]
    /\ sbTags \in SeqsUpTo(SubstTags, MaxTags)
    /\ sbMap = EmptyMap
    /\ sbPc = "call"

SubstIdle ==
    /\ sbGsub = <<>>
    /\ sbTags = <<>>
    /\ sbMap = <<>>
    /\ sbPc = "idle"

BuildSubstitutionMapCall ==
    /\ sbPc = "call"
    /\ sbMap' = buildSubstitutionMap(sbGsub, sbTags)
    /\ sbPc' = "done"
    /\ UNCHANGED <<sbGsub, sbTags>>

-----------------------------------------------------------------------------
(* SVGRenderer: initializeWasm and renderSVGToPNG under render() *)

\* Number of render() calls in progress in the process.
NRenders == 2

Renders == 1..NRenders

\* The values of a wasmBuffer option: absent, or a buffer.  The buffer given
\* to the constructor and the one given to render() are told apart.
NoBuffer == "none"

ConstructorBuffers == {NoBuffer, "constructorBuffer"}

RenderBuffers == {NoBuffer, "renderBuffer"}

\* index.js, lines 216-218: the options render() hands to renderSVGToPNG are
\* { wasmBuffer: this.options.wasmBuffer }, this.options being the options of
\* the constructor; the second argument of render() is used for the output
\* only.
WasmBufferOption(options) == options.constructor

\* Lines 19-28: the provided buffer, else the bytes of the local file.
WasmBytes(wasmBuffer) == IF wasmBuffer # NoBuffer THEN wasmBuffer ELSE "localFile"

WasmStart ==
    /\ wasmInitialized = FALSE
    /\ initWasmCalls = <<>>
    /\ wOptions \in [Renders -> [constructor : ConstructorBuffers, render : RenderBuffers]]
    /\ wPc = [r \in Renders |-> "start"]

WasmIdle ==
    /\ wasmInitialized = FALSE
    /\ initWasmCalls = <<>>
    /\ wOptions = <<>>
    /\ wPc = <<>>

\* renderSVGToPNG calls initializeWasm, which returns at once: the flag is set.
InitializeWasmSkips(r) ==
    /\ wPc[r] = "start"
    /\ wasmInitialized
    /\ wPc' = [wPc EXCEPT ![r] = "initialized"]
    /\ UNCHANGED <<wasmInitialized, initWasmCalls, wOptions>>

\* renderSVGToPNG calls initializeWasm with the flag not set: the bytes are
\* chosen and initWasm(wasmBytes) is invoked and awaited.
InitializeWasmInvokes(r) ==
    /\ wPc[r] = "start"
    /\ ~wasmInitialized
    /\ initWasmCalls' = Append(initWasmCalls,
                               [render |-> r, bytes |-> WasmBytes(WasmBufferOption(wOptions[r]))])
    /\ wPc' = [wPc EXCEPT ![r] = "initWasm"]
    /\ UNCHANGED <<wasmInitialized, wOptions>>

\* `await initWasm(wasmBytes)' resolves: this.wasmInitialized = true.
InitWasmResolves(r) ==
    /\ wPc[r] = "initWasm"
    /\ wasmInitialized' = TRUE
    /\ wPc' = [wPc EXCEPT ![r] = "initialized"]
    /\ UNCHANGED <<initWasmCalls, wOptions>>

\* `await initWasm(wasmBytes)' rejects: 'Failed to initialize WASM'.
InitWasmRejects(r) ==
    /\ wPc[r] = "initWasm"
    /\ wPc' = [wPc EXCEPT ![r] = "failed"]
    /\ UNCHANGED <<wasmInitialized, initWasmCalls, wOptions>>

\* Lines 40-46: new Resvg(svgString, options), render(), asPng().
Rasterizes(r) ==
    /\ wPc[r] = "initialized"
    /\ wPc' = [wPc EXCEPT ![r] = "rasterized"]
    /\ UNCHANGED <<wasmInitialized, initWasmCalls, wOptions>>

-----------------------------------------------------------------------------
(* toFile *)

\* Largest depth of the base directory below the root.
MaxBaseDepth == 1

\* Largest number of components of the filePath argument.
MaxPathLen == 2

\* File and directory names, as strings of characters: "a" and "ab".
PathNames == {<<"a">>, <<"a", "b">>}

\* The components a filePath is made of: names, "." and "..".
PathComponents == PathNames \cup {<<".">>, <<".", ".">>}

\* An absolute, normalized path is the sequence of its names, the root being
\* the empty sequence.  Its string: "/" for the root, else "/" + name for
\* each name.
RECURSIVE PathString(_)
PathString(names) ==
    IF names = <<>> THEN <<>> ELSE <<"/">> \o Head(names) \o PathString(Tail(names))

PathToString(names) == IF names = <<>> THEN <<"/">> ELSE PathString(names)

\* Normalization of path.resolve: "." is dropped, ".." removes the name
\* before it and is dropped at the root.
RECURSIVE Normalize(_, _)
Normalize(components, names) ==
    IF components = <<>> THEN names
    ELSE IF Head(components) = <<".">> THEN Normalize(Tail(components), names)
    ELSE IF Head(components) = <<".", ".">>
        THEN Normalize(Tail(components),
                       IF names = <<>> THEN names ELSE SubSeq(names, 1, Len(names) - 1))
    ELSE Normalize(Tail(components), Append(names, Head(components)))

\* resolve(baseDir, filePath): an absolute filePath replaces the base.
Resolve(baseDir, filePath) ==
    IF filePath.absolute THEN Normalize(filePath.components, <<>>)
    ELSE Normalize(filePath.components, baseDir)

\* String.prototype.startsWith
StartsWith(str, prefix) ==
    Len(prefix) <= Len(str) /\ SubSeq(str, 1, Len(prefix)) = prefix

\* !resolved.startsWith(resolvedBase + '/') && resolved !== resolvedBase
EscapesBase(resolved, resolvedBase) ==
    /\ ~StartsWith(PathToString(resolved), PathToString(resolvedBase) \o <<"/">>)
    /\ PathToString(resolved) # PathToString(resolvedBase)

\* dirname(resolved)
Dirname(names) == IF names = <<>> THEN names ELSE SubSeq(names, 1, Len(names) - 1)

\* The directories that exist before the call: the base directory and the
\* directories above it.
ExistingDirs(baseDir) == {SubSeq(baseDir, 1, k) : k \in 0..Len(baseDir)}

FileStart ==
    /\ tfBaseDir \in SeqsUpTo(PathNames, MaxBaseDepth)
    /\ tfFilePath \in [absolute : BOOLEAN, components : SeqsUpTo(PathComponents, MaxPathLen)]
    /\ tfDirs = {}
    /\ tfFiles = {}
    /\ tfResult = [status |-> "pending", path |-> <<>>]
    /\ tfPc = "call"

FileIdle ==
    /\ tfBaseDir = <<>>
    /\ tfFilePath = <<>>
    /\ tfDirs = {}
    /\ tfFiles = {}
    /\ tfResult = [status |-> "pending", path |-> <<>>]
    /\ tfPc = "idle"

\* toFile(pngBuffer, filePath, baseDir): the traversal test, then mkdirSync
\* of a missing directory and writeFileSync, which fails on a path that is a
\* directory ('Failed to write file').
ToFileCall ==
    /\ tfPc = "call"
    /\ LET resolved == Resolve(tfBaseDir, tfFilePath)
           resolvedBase == Resolve(tfBaseDir, [absolute |-> FALSE, components |-> <<>>])
           dir == Dirname(resolved)
       IN  IF EscapesBase(resolved, resolvedBase)
           THEN /\ tfResult' = [status |-> "traversal", path |-> <<>>]
                /\ UNCHANGED <<tfDirs, tfFiles>>
           ELSE /\ tfDirs' = IF dir \in ExistingDirs(tfBaseDir) THEN tfDirs ELSE tfDirs \cup {dir}
                /\ IF resolved \in ExistingDirs(tfBaseDir)
                   THEN /\ tfResult' = [status |-> "writeFailed", path |-> <<>>]
                        /\ UNCHANGED tfFiles
                   ELSE /\ tfResult' = [status |-> "returned", path |-> resolved]
                        /\ tfFiles' = tfFiles \cup {resolved}
    /\ tfPc' = "done"
    /\ UNCHANGED <<tfBaseDir, tfFilePath>>

-----------------------------------------------------------------------------
(* Specifications *)

LoaderIdle ==
    /\ fontCache = [f \in Families |-> null]
    /\ loaderPc = [c \in Callers |-> "idle"]
    /\ loaderKey = [c \in Callers |-> "Noto+Sans"]
    /\ loaderResult = [c \in Callers |-> null]
    /\ fileReads = [f \in Families |-> 0]
    /\ nextHandle = 0
    /\ fontsOnDisk = {}

\* The font loader under concurrent callers.
LoaderInit == LoaderStart /\ BidiIdle /\ SegIdle /\ PrefetchIdle /\ RenderIdle /\ ShapeIdle /\ AssembleIdle /\ ChainIdle
       /\ LayoutIdle /\ RtlIdle /\ SubstIdle /\ WasmIdle /\ FileIdle

LoaderSpecNext ==
    \/ (\E c \in Callers, f \in Families : LoadLocalFontCall(c, f))
          /\ UNCHANGED <<bidiVars, segVars, prefetchVars, renderVars, shapeVars, assembleVars, chainVars, layoutVars, rtlVars, substVars, wasmVars, fileVars>>
    \/ (\E c \in Callers : DecompressSettles(c))
          /\ UNCHANGED <<bidiVars, segVars, prefetchVars, renderVars, shapeVars, assembleVars, chainVars, layoutVars, rtlVars, substVars, wasmVars, fileVars>>
    \/ (\E c \in Callers : CreateHbFontSettles(c))
          /\ UNCHANGED <<bidiVars, segVars, prefetchVars, renderVars, shapeVars, assembleVars, chainVars, layoutVars, rtlVars, substVars, wasmVars, fileVars>>
    \/ (\E c \in Callers : LoaderReturn(c))
          /\ UNCHANGED <<bidiVars, segVars, prefetchVars, renderVars, shapeVars, assembleVars, chainVars, layoutVars, rtlVars, substVars, wasmVars, fileVars>>

SpecLoader == LoaderInit /\ [][LoaderSpecNext]_vars

\* getBidiRuns applied to every text within the bounds.
BidiInit == BidiStart /\ LoaderIdle /\ SegIdle /\ PrefetchIdle /\ RenderIdle /\ ShapeIdle /\ AssembleIdle /\ ChainIdle
       /\ LayoutIdle /\ RtlIdle /\ SubstIdle /\ WasmIdle /\ FileIdle

BidiNext == GetBidiRunsCall /\ UNCHANGED <<loaderVars, segVars, prefetchVars, renderVars, shapeVars, assembleVars, chainVars, layoutVars, rtlVars, substVars, wasmVars, fileVars>>

SpecBidi == BidiInit /\ [][BidiNext]_vars

\* segmentByFont applied to every cluster sequence and argument combination
\* within the bounds.
SegInit == SegStart /\ LoaderIdle /\ BidiIdle /\ PrefetchIdle /\ RenderIdle /\ ShapeIdle /\ AssembleIdle /\ ChainIdle
       /\ LayoutIdle /\ RtlIdle /\ SubstIdle /\ WasmIdle /\ FileIdle

SegNext == SegmentByFontCall /\ UNCHANGED <<loaderVars, bidiVars, prefetchVars, renderVars, shapeVars, assembleVars, chainVars, layoutVars, rtlVars, substVars, wasmVars, fileVars>>

SpecSegment == SegInit /\ [][SegNext]_vars

\* The emoji prefetch of generateTextPaths applied to every text within the
\* bounds.
PrefetchInit == PrefetchStart /\ LoaderIdle /\ BidiIdle /\ SegIdle /\ RenderIdle /\ ShapeIdle /\ AssembleIdle /\ ChainIdle
       /\ LayoutIdle /\ RtlIdle /\ SubstIdle /\ WasmIdle /\ FileIdle

PrefetchNext == PrefetchCall /\ UNCHANGED <<loaderVars, bidiVars, segVars, renderVars, shapeVars, assembleVars, chainVars, layoutVars, rtlVars, substVars, wasmVars, fileVars>>

SpecPrefetch == PrefetchInit /\ [][PrefetchNext]_vars

\* One render() call over a document of NNodes text nodes.
RenderInit == RenderStart /\ LoaderIdle /\ BidiIdle /\ SegIdle /\ PrefetchIdle /\ ShapeIdle /\ AssembleIdle /\ ChainIdle
       /\ LayoutIdle /\ RtlIdle /\ SubstIdle /\ WasmIdle /\ FileIdle

RenderNext ==
    \/ DetectAndConvert
          /\ UNCHANGED <<loaderVars, bidiVars, segVars, prefetchVars, shapeVars, assembleVars, chainVars, layoutVars, rtlVars, substVars, wasmVars, fileVars>>
    \/ Rasterized
          /\ UNCHANGED <<loaderVars, bidiVars, segVars, prefetchVars, shapeVars, assembleVars, chainVars, layoutVars, rtlVars, substVars, wasmVars, fileVars>>
    \/ (\E t \in FontTasks : FontTaskSettles(t))
          /\ UNCHANGED <<loaderVars, bidiVars, segVars, prefetchVars, shapeVars, assembleVars, chainVars, layoutVars, rtlVars, substVars, wasmVars, fileVars>>
    \/ FontsJoined /\ UNCHANGED <<loaderVars, bidiVars, segVars, prefetchVars, shapeVars, assembleVars, chainVars, layoutVars, rtlVars, substVars, wasmVars, fileVars>>
    \/ FontsRejected /\ UNCHANGED <<loaderVars, bidiVars, segVars, prefetchVars, shapeVars, assembleVars, chainVars, layoutVars, rtlVars, substVars, wasmVars, fileVars>>
    \/ (\E n \in Nodes : GetHbResolves(n))
          /\ UNCHANGED <<loaderVars, bidiVars, segVars, prefetchVars, shapeVars, assembleVars, chainVars, layoutVars, rtlVars, substVars, wasmVars, fileVars>>
    \/ (\E n \in Nodes : GetHbRejects(n))
          /\ UNCHANGED <<loaderVars, bidiVars, segVars, prefetchVars, shapeVars, assembleVars, chainVars, layoutVars, rtlVars, substVars, wasmVars, fileVars>>
    \/ (\E n \in Nodes : \E g \in NodeClusters : EmojiSettles(n, g))
          /\ UNCHANGED <<loaderVars, bidiVars, segVars, prefetchVars, shapeVars, assembleVars, chainVars, layoutVars, rtlVars, substVars, wasmVars, fileVars>>
    \/ (\E n \in Nodes : PrefetchJoined(n))
          /\ UNCHANGED <<loaderVars, bidiVars, segVars, prefetchVars, shapeVars, assembleVars, chainVars, layoutVars, rtlVars, substVars, wasmVars, fileVars>>
    \/ (\E n \in Nodes : WalkCluster(n))
          /\ UNCHANGED <<loaderVars, bidiVars, segVars, prefetchVars, shapeVars, assembleVars, chainVars, layoutVars, rtlVars, substVars, wasmVars, fileVars>>
    \/ (\E n \in Nodes : LayoutReturns(n))
          /\ UNCHANGED <<loaderVars, bidiVars, segVars, prefetchVars, shapeVars, assembleVars, chainVars, layoutVars, rtlVars, substVars, wasmVars, fileVars>>
    \/ PathsJoined /\ UNCHANGED <<loaderVars, bidiVars, segVars, prefetchVars, shapeVars, assembleVars, chainVars, layoutVars, rtlVars, substVars, wasmVars, fileVars>>
    \/ PathsRejected /\ UNCHANGED <<loaderVars, bidiVars, segVars, prefetchVars, shapeVars, assembleVars, chainVars, layoutVars, rtlVars, substVars, wasmVars, fileVars>>

SpecRender == RenderInit /\ [][RenderNext]_vars

\* shapeAndRender applied to every glyph sequence within the bounds.
ShapeInit == ShapeStart /\ LoaderIdle /\ BidiIdle /\ SegIdle /\ PrefetchIdle /\ RenderIdle /\ AssembleIdle /\ ChainIdle
       /\ LayoutIdle /\ RtlIdle /\ SubstIdle /\ WasmIdle /\ FileIdle

ShapeNext == ShapeAndRenderCall /\ UNCHANGED <<loaderVars, bidiVars, segVars, prefetchVars, renderVars, assembleVars, chainVars, layoutVars, rtlVars, substVars, wasmVars, fileVars>>

SpecShape == ShapeInit /\ [][ShapeNext]_vars

\* The layout loop of generateTextPaths applied to every node, font set and
\* emoji cache within the bounds.
AssembleInit ==
    AssembleStart /\ LoaderIdle /\ BidiIdle /\ SegIdle /\ PrefetchIdle /\ RenderIdle /\ ShapeIdle
       /\ ChainIdle
       /\ LayoutIdle /\ RtlIdle /\ SubstIdle /\ WasmIdle /\ FileIdle

AssembleNext ==
    GenerateTextPathsCall
       /\ UNCHANGED <<loaderVars, bidiVars, segVars, prefetchVars, renderVars, shapeVars, chainVars, layoutVars, rtlVars, substVars, wasmVars, fileVars>>

SpecAssemble == AssembleInit /\ [][AssembleNext]_vars

\* The chain of one script entry inside loadInternationalFonts.
ChainInit ==
    ChainStart /\ LoaderIdle /\ BidiIdle /\ SegIdle /\ PrefetchIdle /\ RenderIdle /\ ShapeIdle
       /\ AssembleIdle
       /\ LayoutIdle /\ RtlIdle /\ SubstIdle /\ WasmIdle /\ FileIdle

ChainNext ==
    \/ ChainEnter
          /\ UNCHANGED <<loaderVars, bidiVars, segVars, prefetchVars, renderVars, shapeVars, assembleVars, layoutVars, rtlVars, substVars, wasmVars, fileVars>>
    \/ CandidateLoads
          /\ UNCHANGED <<loaderVars, bidiVars, segVars, prefetchVars, renderVars, shapeVars, assembleVars, layoutVars, rtlVars, substVars, wasmVars, fileVars>>
    \/ CandidateMissing
          /\ UNCHANGED <<loaderVars, bidiVars, segVars, prefetchVars, renderVars, shapeVars, assembleVars, layoutVars, rtlVars, substVars, wasmVars, fileVars>>
    \/ CandidateThrows
          /\ UNCHANGED <<loaderVars, bidiVars, segVars, prefetchVars, renderVars, shapeVars, assembleVars, layoutVars, rtlVars, substVars, wasmVars, fileVars>>

SpecChain == ChainInit /\ [][ChainNext]_vars

\* The generateTextPaths calls render() makes for the text elements of a
\* document, under every interleaving, and the replacements.
LayoutInit ==
    LayoutStart /\ LoaderIdle /\ BidiIdle /\ SegIdle /\ PrefetchIdle /\ RenderIdle /\ ShapeIdle
       /\ AssembleIdle /\ ChainIdle /\ RtlIdle /\ SubstIdle /\ WasmIdle /\ FileIdle

LayoutNext ==
    \/ (\E n \in LayoutNodes : LayoutGetHb(n))
          /\ UNCHANGED <<loaderVars, bidiVars, segVars, prefetchVars, renderVars, shapeVars, assembleVars, chainVars, rtlVars, substVars, wasmVars, fileVars>>
    \/ (\E n \in LayoutNodes : LayoutPrefetched(n))
          /\ UNCHANGED <<loaderVars, bidiVars, segVars, prefetchVars, renderVars, shapeVars, assembleVars, chainVars, rtlVars, substVars, wasmVars, fileVars>>
    \/ (\E n \in LayoutNodes : LayoutBidiRunStep(n))
          /\ UNCHANGED <<loaderVars, bidiVars, segVars, prefetchVars, renderVars, shapeVars, assembleVars, chainVars, rtlVars, substVars, wasmVars, fileVars>>
    \/ (\E n \in LayoutNodes : LayoutReturn(n))
          /\ UNCHANGED <<loaderVars, bidiVars, segVars, prefetchVars, renderVars, shapeVars, assembleVars, chainVars, rtlVars, substVars, wasmVars, fileVars>>
    \/ LayoutReplace
          /\ UNCHANGED <<loaderVars, bidiVars, segVars, prefetchVars, renderVars, shapeVars, assembleVars, chainVars, rtlVars, substVars, wasmVars, fileVars>>

SpecLayout == LayoutInit /\ [][LayoutNext]_vars

\* applyRTLProcessing applied to every text within the bounds.
RtlInit ==
    RtlStart /\ LoaderIdle /\ BidiIdle /\ SegIdle /\ PrefetchIdle /\ RenderIdle /\ ShapeIdle
       /\ AssembleIdle /\ ChainIdle /\ LayoutIdle /\ SubstIdle /\ WasmIdle /\ FileIdle

RtlNext ==
    ApplyRTLProcessingCall
       /\ UNCHANGED <<loaderVars, bidiVars, segVars, prefetchVars, renderVars, shapeVars, assembleVars, chainVars, layoutVars, substVars, wasmVars, fileVars>>

SpecRtl == RtlInit /\ [][RtlNext]_vars

\* buildSubstitutionMap applied to every GSUB table and tag list within the
\* bounds.
SubstInit ==
    SubstStart /\ LoaderIdle /\ BidiIdle /\ SegIdle /\ PrefetchIdle /\ RenderIdle /\ ShapeIdle
       /\ AssembleIdle /\ ChainIdle /\ LayoutIdle /\ RtlIdle /\ WasmIdle /\ FileIdle

SubstNext ==
    BuildSubstitutionMapCall
       /\ UNCHANGED <<loaderVars, bidiVars, segVars, prefetchVars, renderVars, shapeVars, assembleVars, chainVars, layoutVars, rtlVars, wasmVars, fileVars>>

SpecSubst == SubstInit /\ [][SubstNext]_vars

\* NRenders concurrent render() calls reaching renderSVGToPNG in a fresh
\* process.
WasmInit ==
    WasmStart /\ LoaderIdle /\ BidiIdle /\ SegIdle /\ PrefetchIdle /\ RenderIdle /\ ShapeIdle
       /\ AssembleIdle /\ ChainIdle /\ LayoutIdle /\ RtlIdle /\ SubstIdle /\ FileIdle

WasmNext ==
    \/ (\E r \in Renders : InitializeWasmSkips(r))
          /\ UNCHANGED <<loaderVars, bidiVars, segVars, prefetchVars, renderVars, shapeVars, assembleVars, chainVars, layoutVars, rtlVars, substVars, fileVars>>
    \/ (\E r \in Renders : InitializeWasmInvokes(r))
          /\ UNCHANGED <<loaderVars, bidiVars, segVars, prefetchVars, renderVars, shapeVars, assembleVars, chainVars, layoutVars, rtlVars, substVars, fileVars>>
    \/ (\E r \in Renders : InitWasmResolves(r))
          /\ UNCHANGED <<loaderVars, bidiVars, segVars, prefetchVars, renderVars, shapeVars, assembleVars, chainVars, layoutVars, rtlVars, substVars, fileVars>>
    \/ (\E r \in Renders : InitWasmRejects(r))
          /\ UNCHANGED <<loaderVars, bidiVars, segVars, prefetchVars, renderVars, shapeVars, assembleVars, chainVars, layoutVars, rtlVars, substVars, fileVars>>
    \/ (\E r \in Renders : Rasterizes(r))
          /\ UNCHANGED <<loaderVars, bidiVars, segVars, prefetchVars, renderVars, shapeVars, assembleVars, chainVars, layoutVars, rtlVars, substVars, fileVars>>

SpecWasm == WasmInit /\ [][WasmNext]_vars

\* toFile applied to every base directory and filePath within the bounds.
FileInit ==
    FileStart /\ LoaderIdle /\ BidiIdle /\ SegIdle /\ PrefetchIdle /\ RenderIdle /\ ShapeIdle
       /\ AssembleIdle /\ ChainIdle /\ LayoutIdle /\ RtlIdle /\ SubstIdle /\ WasmIdle

FileNext ==
    ToFileCall
       /\ UNCHANGED <<loaderVars, bidiVars, segVars, prefetchVars, renderVars, shapeVars, assembleVars, chainVars, layoutVars, rtlVars, substVars, wasmVars>>

SpecFile == FileInit /\ [][FileNext]_vars

-----------------------------------------------------------------------------
(* Claims about the font cache *)

\* C1: when several callers request the same font key while it is not yet
\* cached, the underlying load runs once and all callers get the same handle:
\* at no time are two loads of one family in flight, and two callers that
\* hold a handle for the same family hold the same one.
C1_SingleLoadPerKey ==
    \A c, d \in Callers :
        (c # d /\ loaderKey[c] = loaderKey[d]) =>
            /\ ~(loaderPc[c] \in InFlight /\ loaderPc[d] \in InFlight)
            /\ (loaderPc[c] = "returned" /\ loaderPc[d] = "returned"
                /\ loaderResult[c] # null /\ loaderResult[d] # null)
                  => loaderResult[c] = loaderResult[d]

\* C7: an entry of the font cache, once inserted, is never replaced or
\* removed (first writer wins).
C7_CacheAppendOnly ==
    [][\A f \in Families : fontCache[f] # null => fontCache'[f] = fontCache[f]]_vars

-----------------------------------------------------------------------------
(* Claims about getBidiRuns *)

RECURSIVE ConcatRunTexts(_)
ConcatRunTexts(runs) ==
    IF runs = <<>> THEN <<>> ELSE Head(runs).text \o ConcatRunTexts(Tail(runs))

\* C2: the runs returned by getBidiRuns partition the text: the first starts
\* at 0, each starts where the previous one ends, the last ends at the text
\* length, every run is non-empty and holds text.slice(start, end), the run
\* texts concatenated give the text, and the empty text yields no runs.
C2_RunsPartitionText ==
    bidiPc = "done" =>
        /\ (bidiText = <<>>) <=> (bidiRuns = <<>>)
        /\ bidiRuns # <<>> =>
              /\ bidiRuns[1].start = 0
              /\ bidiRuns[Len(bidiRuns)].end = Len(bidiText)
        /\ \A k \in 1..Len(bidiRuns) :
              /\ bidiRuns[k].start < bidiRuns[k].end
              /\ bidiRuns[k].text = Slice(bidiText, bidiRuns[k].start, bidiRuns[k].end)
              /\ k > 1 => bidiRuns[k].start = bidiRuns[k - 1].end
        /\ ConcatRunTexts(bidiRuns) = bidiText

\* A text of several runs has been split.
C2_Witness ==
    /\ bidiPc = "done"
    /\ Len(bidiText) = MaxTextLen
    /\ Len(bidiRuns) >= 3

\* C3: the runs are maximal same-direction runs: each run is tagged ltr when
\* its level is even and rtl when it is odd, and no two consecutive runs have
\* the same direction.
C3_MaximalDirectionRuns ==
    bidiPc = "done" =>
        /\ \A k \in 1..Len(bidiRuns) :
              bidiRuns[k].direction = DirectionOf(bidiLevels[bidiRuns[k].start + 1])
        /\ \A k \in 2..Len(bidiRuns) :
              bidiRuns[k].direction # bidiRuns[k - 1].direction

-----------------------------------------------------------------------------
(* Claims about segmentByFont *)

\* The clusters of the returned runs in order, each with the type and font of
\* its run.
RECURSIVE FlattenRuns(_)
FlattenRuns(runs) ==
    IF runs = <<>> THEN <<>>
    ELSE [k \in 1..Len(Head(runs).graphemes) |->
             [g |-> Head(runs).graphemes[k], type |-> Head(runs).type, font |-> Head(runs).font]]
         \o FlattenRuns(Tail(runs))

SegAssigned == FlattenRuns(segRuns)

\* The source strict priority gives a cluster: emoji artwork, then the
\* script-specific font, then the primary font, then the generic fallback
\* font, and no font only when none of these is available.
SourceByPriority(g, args) ==
    LET scriptFont == resolveInternationalFont(g, args.internationalFonts) IN
    IF args.enableEmoji /\ isEmoji(g) /\ HasArtwork(args.emojiCache, g)
        THEN [type |-> "emoji", font |-> null]
    ELSE IF scriptFont # null       THEN [type |-> "text", font |-> scriptFont]
    ELSE IF args.primaryFont # null THEN [type |-> "text", font |-> args.primaryFont]
    ELSE IF args.fallbackFont # null THEN [type |-> "text", font |-> args.fallbackFont]
    ELSE [type |-> "fallback", font |-> null]

SourceOf(k) == [type |-> SegAssigned[k].type, font |-> SegAssigned[k].font]

\* Cluster k is a neutral cluster without script font or artwork, in an rtl
\* run, directly after a cluster that lies in a text run.
FollowsTextInRtl(k) ==
    /\ segArgs.direction = "rtl"
    /\ isNeutral(segGraphemes[k])
    /\ resolveInternationalFont(segGraphemes[k], segArgs.internationalFonts) = null
    /\ SourceByPriority(segGraphemes[k], segArgs).type # "emoji"
    /\ k > 1
    /\ SegAssigned[k - 1].type = "text"

\* No cluster is given the generic fallback font while a primary font is
\* present.
NoFallbackBesidePrimary ==
    segArgs.primaryFont # null =>
        \A k \in 1..Len(SegAssigned) :
            ~(SegAssigned[k].type = "text" /\ SegAssigned[k].font = FontOf.fallback)

\* C4 (as stated): every cluster that is not a line break gets its source by
\* strict priority (emoji artwork, script font, primary font, fallback font,
\* else no font), and never the fallback font while a primary font is present.
C4_StrictPriority ==
    segPc = "done" =>
        /\ Len(SegAssigned) = Len(segGraphemes)
        /\ \A k \in 1..Len(segGraphemes) :
              ~isLineBreak(segGraphemes[k]) =>
                  SourceOf(k) = SourceByPriority(segGraphemes[k], segArgs)
        /\ NoFallbackBesidePrimary

\* C4 (amended): as C4, except that in an rtl run a neutral cluster without
\* script font that directly follows a cluster of a text run takes that run's
\* font instead of the primary or fallback font.
C4_PriorityExceptRtlNeutral ==
    segPc = "done" =>
        /\ Len(SegAssigned) = Len(segGraphemes)
        /\ \A k \in 1..Len(segGraphemes) :
              ~isLineBreak(segGraphemes[k]) =>
                  IF FollowsTextInRtl(k)
                  THEN SourceOf(k) = [type |-> "text", font |-> SegAssigned[k - 1].font]
                  ELSE SourceOf(k) = SourceByPriority(segGraphemes[k], segArgs)
        /\ NoFallbackBesidePrimary

\* A run where every level of the priority order decides a cluster: emoji
\* artwork, a script font and the fallback font (no primary font).
C4_Witness ==
    /\ segPc = "done"
    /\ segArgs.primaryFont = null
    /\ Len(segRuns) = 3
    /\ segRuns[1].type = "emoji"
    /\ segRuns[2].type = "text" /\ segRuns[2].font = FontOf.Arabic
    /\ segRuns[3].type = "text" /\ segRuns[3].font = FontOf.fallback

\* White space, punctuation and digits: the neutral clusters as the claim
\* names them (isNeutral of the code also accepts symbols).
isSpacePunctDigit(g) == CodePointsOf(g) \subseteq {"sp", "d1", "acomma", "adigit"}

\* The nearest cluster before k that is not white space, punctuation or a
\* digit, 0 when there is none.
PrecedingNonNeutral(k) ==
    LET js == {j \in 1..(k - 1) : ~isSpacePunctDigit(segGraphemes[j])}
    IN  IF js = {} THEN 0 ELSE CHOOSE j \in js : \A i \in js : i <= j

\* Cluster k is a neutral cluster without script font or artwork.
NeutralWithoutScript(k) ==
    /\ isNeutral(segGraphemes[k])
    /\ ~isLineBreak(segGraphemes[k])
    /\ resolveInternationalFont(segGraphemes[k], segArgs.internationalFonts) = null
    /\ SourceByPriority(segGraphemes[k], segArgs).type # "emoji"

\* C5 (as stated): in an rtl run a neutral cluster (white space, punctuation,
\* digit) without script font gets the font of the nearest preceding
\* non-neutral cluster of the run when there is one, else the primary/fallback
\* font; in an ltr run it never inherits.  (Left aside: a cluster whose
\* nearest non-neutral predecessor has no font of its own, being drawn as
\* emoji artwork or as a no-font node, and a cluster preceded by neutral
\* clusters only.)
C5_InheritsPrecedingNonNeutral ==
    segPc = "done" =>
        /\ Len(SegAssigned) = Len(segGraphemes)
        /\ \A k \in 1..Len(segGraphemes) :
              (NeutralWithoutScript(k) /\ isSpacePunctDigit(segGraphemes[k])) =>
                  /\ (segArgs.direction = "rtl" /\ PrecedingNonNeutral(k) # 0
                      /\ SegAssigned[PrecedingNonNeutral(k)].type = "text")
                        => SourceOf(k) = SourceOf(PrecedingNonNeutral(k))
                  /\ (segArgs.direction = "ltr" \/ k = 1)
                        => SourceOf(k) = SourceByPriority(segGraphemes[k], segArgs)

\* C5 (amended): in an rtl run a neutral cluster without script font gets the
\* font of the text run open at that point, that is the font of the cluster
\* directly before it when that cluster lies in a text run (neutral or not);
\* at the start of the run, or directly after an emoji or a cluster without
\* font, it gets the primary/fallback font; in an ltr run it never inherits.
C5_InheritsOpenRunFont ==
    segPc = "done" =>
        /\ Len(SegAssigned) = Len(segGraphemes)
        /\ \A k \in 1..Len(segGraphemes) :
              NeutralWithoutScript(k) =>
                  IF segArgs.direction = "rtl" /\ k > 1 /\ SegAssigned[k - 1].type = "text"
                  THEN SourceOf(k) = [type |-> "text", font |-> SegAssigned[k - 1].font]
                  ELSE SourceOf(k) = SourceByPriority(segGraphemes[k], segArgs)

\* An rtl run "alef, space" with an Arabic font and a primary font: the space
\* is shaped with the Arabic font, in one run with the letter.
C5_Witness ==
    /\ segPc = "done"
    /\ segArgs.direction = "rtl"
    /\ segArgs.primaryFont # null
    /\ segGraphemes = << <<"alef">>, <<"sp">>, <<"alef">> >>
    /\ Len(segRuns) = 1
    /\ segRuns[1].font = FontOf.Arabic

\* The number of places where a text cluster starts a new font: it is the
\* first cluster, or the cluster before it is no text cluster or has another
\* font.
FontSwitches ==
    Cardinality({k \in 1..Len(SegAssigned) :
        /\ SegAssigned[k].type = "text"
        /\ (k = 1 \/ SegAssigned[k - 1].type # "text" \/ SegAssigned[k - 1].font # SegAssigned[k].font)})

TextRuns == {k \in 1..Len(segRuns) : segRuns[k].type = "text"}

\* C6: no two consecutive runs are both text runs with the same font, and the
\* number of text runs (one shaping call each) equals the number of font
\* switches.
C6_AdjacentSameFontMerged ==
    segPc = "done" =>
        /\ \A k \in 2..Len(segRuns) :
              ~(segRuns[k].type = "text" /\ segRuns[k - 1].type = "text"
                /\ segRuns[k].font = segRuns[k - 1].font)
        /\ Cardinality(TextRuns) = FontSwitches

\* Three clusters in two text runs: two adjacent clusters were merged and a
\* font switch opened the second run.
C6_Witness ==
    /\ segPc = "done"
    /\ Len(segGraphemes) = 3
    /\ Len(segRuns) = 2
    /\ segRuns[1].type = "text" /\ segRuns[2].type = "text"
    /\ Len(segRuns[1].graphemes) = 2

\* The clusters of a sequence joined into one string.
RECURSIVE ConcatClusters(_)
ConcatClusters(graphemes) ==
    IF graphemes = <<>> THEN <<>> ELSE Head(graphemes) \o ConcatClusters(Tail(graphemes))

\* The chars of the runs joined in order.
RECURSIVE ConcatRunChars(_)
ConcatRunChars(runs) ==
    IF runs = <<>> THEN <<>> ELSE Head(runs).chars \o ConcatRunChars(Tail(runs))

\* C27: segmentByFont neither loses nor reorders clusters: the chars of the
\* returned runs joined in order are the input clusters joined in order, the
\* chars of every run are its graphemes joined, no run is empty, and every
\* newline, emoji and fallback run holds exactly one cluster.
C27_ClustersKeptInOrder ==
    segPc = "done" =>
        /\ ConcatRunChars(segRuns) = ConcatClusters(segGraphemes)
        /\ [k \in 1..Len(SegAssigned) |-> SegAssigned[k].g] = segGraphemes
        /\ \A r \in 1..Len(segRuns) :
              /\ segRuns[r].chars = ConcatClusters(segRuns[r].graphemes)
              /\ Len(segRuns[r].graphemes) >= 1
              /\ segRuns[r].type \in {"newline", "emoji", "fallback"} =>
                    Len(segRuns[r].graphemes) = 1

\* Three clusters came back as a text run of two clusters next to a run of
\* one cluster that is not a text run.
C27_Witness ==
    /\ segPc = "done"
    /\ Len(segGraphemes) = MaxClusters
    /\ \E r \in 1..Len(segRuns) : segRuns[r].type = "text" /\ Len(segRuns[r].graphemes) = 2
    /\ \E r \in 1..Len(segRuns) : segRuns[r].type \in {"newline", "emoji", "fallback"}


-----------------------------------------------------------------------------
(* The two batches and the layout pass *)

\* The layout loop of node n has started (and perhaps ended).
LayoutBegun(n) == nPc[n] \in {"layout", "done"}

\* Every font promise of render() is fulfilled and no loadEmojiSvg promise of
\* node n is pending.
BatchesSettled(n) ==
    /\ \A t \in FontTasks : rFontTask[t] = "fulfilled"
    /\ nPending[n] = {}

\* No font promise changes state and node n starts no lookup in this step.
NothingStarted(n) ==
    /\ rFontTask' = rFontTask
    /\ nFetched'[n] = nFetched[n]
    /\ nPending'[n] = nPending[n]

\* C8: once the layout loop of a text node has started, every font load of
\* the render and every emoji-artwork fetch of the node is settled, and none
\* is started afterwards.
C8_BatchesResolvedBeforeLayout ==
    /\ [](\A n \in Nodes : LayoutBegun(n) => BatchesSettled(n))
    /\ [][\A n \in Nodes : LayoutBegun(n) => NothingStarted(n)]_vars

\* A node with an emoji cluster is inside its layout loop, one cluster walked,
\* after a prefetch batch that made a lookup.
C8_Witness ==
    \E n \in Nodes :
        /\ running = n
        /\ nWalked[n] >= 1
        /\ rEnableEmoji
        /\ nFetched[n] >= 1

-----------------------------------------------------------------------------
(* One lookup per distinct emoji cluster *)

Count(seq, g) == Cardinality({i \in 1..Len(seq) : seq[i] = g})

\* The clusters of the text of the node.
pfClusters == segmentGraphemes(pfText)

\* The distinct emoji cluster values of the text.
EmojiClusterValues == {g \in SetOf(pfClusters) : isEmoji(g) /\ ~isLineBreak(g)}

\* Every emoji cluster value of the text is looked up once, and nothing else
\* is looked up.
OnceEach ==
    \A g \in SetOf(pfClusters) \cup SetOf(pfLookups) :
        Count(pfLookups, g) = IF g \in EmojiClusterValues THEN 1 ELSE 0

\* C9 as stated: in one layout of a text node every distinct emoji cluster
\* value of the text is looked up exactly once, whatever its number of
\* occurrences and of code points, and no other cluster is looked up.
C9_OneLookupPerEmojiCluster == pfPc = "done" => OnceEach

\* C9: with emoji enabled every distinct emoji cluster value of the text is
\* looked up exactly once and no other cluster is looked up; with emoji
\* disabled nothing is looked up.
C9_OneLookupWhenEnabled ==
    pfPc = "done" => IF pfEnableEmoji THEN OnceEach ELSE pfLookups = <<>>

\* A text that holds the same multi-code-point emoji cluster twice has been
\* prefetched with emoji enabled.
C9_Witness ==
    /\ pfPc = "done"
    /\ pfEnableEmoji
    /\ \E i, j \in 1..Len(pfClusters) :
          /\ i < j
          /\ pfClusters[i] = pfClusters[j]
          /\ Len(pfClusters[i]) > 1
          /\ isEmoji(pfClusters[i])

-----------------------------------------------------------------------------
(* Glyph placement and run advance *)

RECURSIVE SumAdvances(_, _)
\* The sum of the scaled x-advances of the first n glyphs of the run.
SumAdvances(n, o) ==
    IF n = 0 THEN 0 ELSE SumAdvances(n - 1, o) + Scaled(shGlyphs[n].ax, o)

\* The position of the pen before glyph i.
PenBefore(i) == Pixels(shOrigin.x, shOrigin) + SumAdvances(i - 1, shOrigin)

RECURSIVE DrawnFrom(_)
\* The indices, from i on, of the glyphs that emit a path.
DrawnFrom(i) ==
    IF i > Len(shGlyphs) THEN <<>>
    ELSE IF EmitsPath(shGlyphs[i]) THEN <<i>> \o DrawnFrom(i + 1)
    ELSE DrawnFrom(i + 1)

Drawn == DrawnFrom(1)

PositiveAdvances == \A i \in 1..Len(shGlyphs) : shGlyphs[i].ax > 0

\* Each emitted glyph sits at the pen position before it plus its own
\* x-offset.
PlacedAtPen ==
    /\ Len(shParts) = Len(Drawn)
    /\ \A k \in 1..Len(Drawn) :
          shParts[k].gx = PenBefore(Drawn[k]) + Scaled(shGlyphs[Drawn[k]].dx, shOrigin)

\* The cursor has moved by the advances of all the glyphs of the run.
CursorAtEnd == shCursor = PenBefore(Len(shGlyphs) + 1)

\* C10 as stated: glyph i is placed at the origin plus the scaled advances
\* of the glyphs before it plus its own x-offset, the cursor moves by the sum
\* of all the scaled advances, and with positive advances the placements are
\* strictly increasing in x.
C10_PlacementsIncrease ==
    shPc = "done" =>
        /\ PlacedAtPen
        /\ CursorAtEnd
        /\ PositiveAdvances =>
              \A k \in 1..(Len(shParts) - 1) : shParts[k].gx < shParts[k + 1].gx

\* C10: glyph i is placed at the origin plus the scaled advances of the
\* glyphs before it plus its own x-offset, the cursor moves by the sum of all
\* the scaled advances, and with positive advances the pen positions of the
\* placements (placement minus own x-offset) are strictly increasing in x, as
\* are the placements themselves when the x-offsets are all equal.
C10_PenPositionsIncrease ==
    shPc = "done" =>
        /\ PlacedAtPen
        /\ CursorAtEnd
        /\ PositiveAdvances =>
              /\ \A k \in 1..(Len(shParts) - 1) :
                    shParts[k].gx - Scaled(shGlyphs[Drawn[k]].dx, shOrigin)
                       < shParts[k + 1].gx - Scaled(shGlyphs[Drawn[k + 1]].dx, shOrigin)
              /\ (\A i, j \in 1..Len(shGlyphs) : shGlyphs[i].dx = shGlyphs[j].dx) =>
                    \A k \in 1..(Len(shParts) - 1) : shParts[k].gx < shParts[k + 1].gx

\* A run with positive advances has been shaped: two glyphs were placed and a
\* glyph between them emitted no path.
C10_Witness ==
    /\ shPc = "done"
    /\ PositiveAdvances
    /\ Len(shParts) >= 2
    /\ \E i \in 1..Len(shGlyphs) :
          /\ ~EmitsPath(shGlyphs[i])
          /\ Drawn[1] < i
          /\ i < Drawn[Len(Drawn)]

-----------------------------------------------------------------------------
(* The layout loop: line breaks *)

\* Origin of the node, in units of 1/upem pixel.
OriginX == asNode.x * asNode.upem

OriginY == asNode.y * asNode.upem

\* Cursor and number of parts before run r.
TraceBefore(r) ==
    IF r = 1 THEN [x |-> OriginX, y |-> OriginY, n |-> 0, features |-> ""] ELSE asTrace[r - 1]

Returned == asPc = "done" /\ asResult.status = "returned"

\* 1.2 x fontSize, in units of 1/upem pixel.
LineSkip == (asNode.fontSize * asNode.upem * 6) \div 5

LineFeeds == {k \in 1..Len(asNode.graphemes) : asNode.graphemes[k] = <<"lf">>}

\* C11: a '\n' run puts cursor-x back to the origin x, adds 1.2 x fontSize to
\* cursor-y and emits nothing; a '\r' run changes neither coordinate and
\* emits nothing; after k '\n' clusters cursor-y is the origin y plus
\* k x 1.2 x fontSize.
C11_LineBreaks ==
    asPc = "done" =>
        /\ \A r \in 1..Len(asTrace) :
              /\ asRuns[r].chars = <<"lf">> =>
                    /\ asTrace[r].x = OriginX
                    /\ asTrace[r].y = TraceBefore(r).y + LineSkip
                    /\ asTrace[r].n = TraceBefore(r).n
              /\ asRuns[r].chars = <<"cr">> =>
                    /\ asTrace[r].x = TraceBefore(r).x
                    /\ asTrace[r].y = TraceBefore(r).y
                    /\ asTrace[r].n = TraceBefore(r).n
        /\ asResult.status = "returned" => asCursor.y = OriginY + Cardinality(LineFeeds) * LineSkip

\* A '\n' has been processed with the cursor away from the origin x.
C11_Witness ==
    /\ Returned
    /\ \E r \in 1..Len(asTrace) :
          /\ asRuns[r].chars = <<"lf">>
          /\ TraceBefore(r).x > OriginX
          /\ TraceBefore(r).n > 0

-----------------------------------------------------------------------------
(* The layout loop: anchoring *)

TotalWidth == asCursor.x - OriginX

\* C12: called with textAnchor 'start' generateTextPaths returns the parts
\* unwrapped; with 'middle' or 'end' it returns them in one group translated
\* by -totalWidth / 2 or -totalWidth, totalWidth being the final cursor-x
\* minus the origin x.
C12_AnchoredFragment ==
    (Returned /\ asEntry = "direct") =>
        /\ asResult.content = asParts
        /\ asNode.textAnchor = "start" => ~asResult.wrapped
        /\ asNode.textAnchor = "middle" => asResult.wrapped /\ 2 * asResult.offset = 0 - TotalWidth
        /\ asNode.textAnchor = "end" => asResult.wrapped /\ asResult.offset = 0 - TotalWidth

\* A fragment of non-zero width has been returned for textAnchor 'middle'.
C12_Witness ==
    /\ Returned
    /\ asEntry = "direct"
    /\ asNode.textAnchor = "middle"
    /\ TotalWidth > 0
    /\ asResult.offset < 0

\* C13: through render() a text node whose text-anchor is middle or end gets
\* the fragment shifted by -totalWidth / 2 or -totalWidth.
C13_AnchorHonouredByRender ==
    (Returned /\ asEntry = "render") =>
        /\ asNode.textAnchor = "middle" => 2 * asResult.offset = 0 - TotalWidth
        /\ asNode.textAnchor = "end" => asResult.offset = 0 - TotalWidth

-----------------------------------------------------------------------------
(* The layout loop: feature tags *)

\* C14: a text run whose font is not the primary font (a script font or the
\* fallback font) is shaped with no feature tags, whatever fonts are loaded.
C14_FeaturesOnlyOnPrimary ==
    asPc = "done" =>
        \A r \in 1..Len(asTrace) :
            (asRuns[r].type # "text" \/ asRuns[r].font # asFonts.primaryFont) => asTrace[r].features = ""

\* With feature tags requested, a run of the primary font was shaped with
\* them next to a run of another font.
C14_Witness ==
    /\ Returned
    /\ asNode.featureString # ""
    /\ \E r, q \in 1..Len(asTrace) :
          /\ asRuns[r].type = "text" /\ asRuns[r].font = FontOf.primary
          /\ asTrace[r].features = asNode.featureString
          /\ asRuns[q].type = "text" /\ asRuns[q].font \in {FontOf.SC, FontOf.fallback}

-----------------------------------------------------------------------------
(* The layout loop: failures and degraded output *)

RECURSIVE ClustersBefore(_)
\* Number of clusters in the runs before run r.
ClustersBefore(r) == IF r = 1 THEN 0 ELSE ClustersBefore(r - 1) + Len(asRuns[r - 1].graphemes)

\* The run that holds cluster k.
RunOf(k) ==
    CHOOSE r \in 1..Len(asRuns) :
        ClustersBefore(r) < k /\ k <= ClustersBefore(r) + Len(asRuns[r].graphemes)

PartsOf(k) == {i \in 1..Len(asParts) : asParts[i].cl = k}

\* C15: when the shaper fails on a text run the error does not escape: every
\* run is still laid out, each cluster of a text run is drawn as a native
\* text node, and generateTextPaths returns.
C15_ShaperFailureContained ==
    (asPc = "done" /\ asShaperThrows) =>
        /\ asResult.status = "returned"
        /\ Len(asTrace) = Len(asRuns)
        /\ \A k \in 1..Len(asNode.graphemes) :
              asRuns[RunOf(k)].type = "text" => \E i \in PartsOf(k) : asParts[i].kind = "text"

\* C18: with emoji enabled every emoji cluster is a run of its own that emits
\* one node (artwork group or placeholder) and advances cursor-x by exactly
\* fontSize, whether or not artwork was found.
C18_EmojiOrPlaceholder ==
    Returned =>
        \A k \in 1..Len(asNode.graphemes) :
            (asEmoji.enableEmoji /\ isEmoji(asNode.graphemes[k])) =>
                /\ asRuns[RunOf(k)].type = "emoji"
                /\ asTrace[RunOf(k)].x = TraceBefore(RunOf(k)).x + asNode.fontSize * asNode.upem
                /\ asTrace[RunOf(k)].n = TraceBefore(RunOf(k)).n + 1

\* C19: every cluster that is not a line break has at least one node in the
\* returned fragment.
C19_TextNeverDisappears ==
    Returned =>
        \A k \in 1..Len(asNode.graphemes) :
            ~isLineBreak(asNode.graphemes[k]) => PartsOf(k) # {}

-----------------------------------------------------------------------------
(* The font chain of a script *)

\* The candidates that load.
Loadable == {i \in 1..Len(chOutcomes) : chOutcomes[i] = "font"}

\* C16: a candidate that fails, by resolving to no font or by raising, is
\* followed by the next candidate of the chain; the script is left without
\* font only after every candidate has been tried and has failed.
C16_ChainFallsThrough ==
    chPc = "done" =>
        /\ Loadable # {} => chFont \in Loadable /\ \A i \in Loadable : chFont <= i
        /\ chFont = null => chTried = 1..Len(chOutcomes)

-----------------------------------------------------------------------------
(* render(): font failures and malformed input *)

\* C17: no font promise of render() rejects: loadInternationalFonts and
\* loadFallbackFont settle without raising, so a font that fails to load
\* never makes render() fail.
C17_FontFailureNeverFatal ==
    \A t \in FontTasks : rFontTask[t] # "rejected"

\* render() has started none of its steps and has no result.
NothingBegun ==
    /\ rPc \in {"convert", "failed"}
    /\ \A t \in FontTasks : rFontTask[t] = "idle"
    /\ \A n \in Nodes : nPc[n] = "idle" /\ nFetched[n] = 0 /\ nWalked[n] = 0

\* The input is neither a string nor a Buffer.
Malformed == rInput \in {"number", "null"}

\* C20: for an input that is neither a string nor a Buffer render() fails in
\* its first step, with no font load, emoji fetch, layout or rasterization
\* started and no output.
C20_MalformedInputFailsFirst ==
    /\ [](Malformed => NothingBegun)
    /\ [][(Malformed /\ rPc = "convert") => rPc' = "failed"]_vars

\* render() has failed on an input that is neither a string nor a Buffer.
C20_Witness == Malformed /\ rPc = "failed"

-----------------------------------------------------------------------------
(* The BidiRuns of a text element: direction, order and cursor *)

\* The locals and the shaper calls of the call for element n.
CallsOf(n) == lyNode[n].st.calls

SpansOf(n) == lyNode[n].spans

\* The BidiRun during which shaper call c of element n was made: the last
\* one that began with fewer than c calls made.
OwnerOf(n, c) ==
    CHOOSE k \in 1..Len(SpansOf(n)) :
        /\ SpansOf(n)[k].calls < c
        /\ \A j \in 1..Len(SpansOf(n)) : SpansOf(n)[j].calls < c => j <= k

\* rtl when the code points of the text lie at an odd embedding level.
LevelDirection(text) ==
    IF \A i \in 1..Len(text) : EmbeddingLevel(text[i]) % 2 = 1 THEN "rtl" ELSE "ltr"

\* C21: every shaper call for a text run is made with an explicit direction,
\* the buffer is shaped in that direction, and it is the direction of the
\* BidiRun that owns the run: rtl for the runs of an rtl BidiRun (odd level),
\* ltr otherwise, whatever the script of the run would suggest.
C21_ShapedInBidiRunDirection ==
    \A n \in DOMAIN lyNode :
        \A c \in 1..Len(CallsOf(n)) :
            /\ CallsOf(n)[c].argument \in {"ltr", "rtl"}
            /\ CallsOf(n)[c].direction = CallsOf(n)[c].argument
            /\ CallsOf(n)[c].direction = SpansOf(n)[OwnerOf(n, c)].direction
            /\ CallsOf(n)[c].direction = LevelDirection(CallsOf(n)[c].text)

\* An element was laid out with an rtl call and with an ltr call for a run
\* whose script alone would have been guessed rtl.
C21_Witness ==
    \E n \in DOMAIN lyNode :
        /\ lyNode[n].pc = "done"
        /\ \E c \in 1..Len(CallsOf(n)) : CallsOf(n)[c].direction = "rtl"
        /\ \E c \in 1..Len(CallsOf(n)) :
              CallsOf(n)[c].direction = "ltr" /\ GuessDirection(CallsOf(n)[c].text) = "rtl"

\* The parts emitted during BidiRun k of element n.
PartsDuring(n, k) ==
    LET upTo == IF k < Len(SpansOf(n)) THEN SpansOf(n)[k + 1].parts ELSE Len(lyNode[n].st.parts)
    IN  {lyNode[n].st.parts[p] : p \in (SpansOf(n)[k].parts + 1)..upTo}

\* C30: the BidiRuns are laid out in storage order with one advancing
\* cursor: the k-th BidiRun laid out is the k-th of getBidiRuns, the first
\* starts at the origin of the element, each later one starts where the one
\* before ended, whatever the two directions, and on one line every part of
\* a BidiRun lies at or after the cursor the BidiRun started from.
C30_BidiRunsInStorageOrder ==
    \A n \in DOMAIN lyNode :
        /\ Len(SpansOf(n)) = lyNode[n].next
        /\ ConcatRunTexts(SpansOf(n)) = SubSeq(lyNode[n].text, 1, Len(ConcatRunTexts(SpansOf(n))))
        /\ \A k \in 1..Len(SpansOf(n)) :
              /\ SpansOf(n)[k].text = lyNode[n].bidiRuns[k].text
              /\ SpansOf(n)[k].direction = lyNode[n].bidiRuns[k].direction
              /\ k = 1 => /\ SpansOf(n)[k].fromX = FreshLocals.x
                          /\ SpansOf(n)[k].fromY = FreshLocals.y
              /\ k > 1 => /\ SpansOf(n)[k].fromX = SpansOf(n)[k - 1].toX
                          /\ SpansOf(n)[k].fromY = SpansOf(n)[k - 1].toY
              /\ "lf" \notin CodePointsOf(SpansOf(n)[k].text) =>
                    /\ SpansOf(n)[k].toX >= SpansOf(n)[k].fromX
                    /\ \A part \in PartsDuring(n, k) : part.x >= SpansOf(n)[k].fromX
        /\ lyNode[n].pc = "done" => ConcatRunTexts(SpansOf(n)) = lyNode[n].text

\* An element of the BidiRuns rtl, ltr, rtl was laid out with a glyph drawn
\* for each, the third BidiRun after the second after the first.
C30_Witness ==
    \E n \in DOMAIN lyNode :
        /\ lyNode[n].pc = "done"
        /\ Len(SpansOf(n)) = 3
        /\ SpansOf(n)[1].direction = "rtl"
        /\ SpansOf(n)[2].direction = "ltr"
        /\ SpansOf(n)[3].direction = "rtl"
        /\ SpansOf(n)[1].fromX < SpansOf(n)[2].fromX
        /\ SpansOf(n)[2].fromX < SpansOf(n)[3].fromX
        /\ \A k \in 1..3 : PartsDuring(n, k) # {}

-----------------------------------------------------------------------------
(* Carriage return followed by line feed *)

\* The text holds a carriage return directly followed by a line feed.
HasCrLf(text) == \E i \in 1..(Len(text) - 1) : text[i] = "cr" /\ text[i + 1] = "lf"

LineFeedsOf(text) == Cardinality({i \in 1..Len(text) : text[i] = "lf"})

\* C25: a carriage return directly followed by a line feed counts as one
\* line break: the layout of a text holding such a pair ends with cursor-y
\* advanced by 1.2 x fontSize once for each line feed of the text, the pair
\* included, and with cursor-x at the origin when the text ends with the pair.
C25_CrLfIsOneLineBreak ==
    \A n \in DOMAIN lyNode :
        (lyNode[n].pc = "done" /\ HasCrLf(lyNode[n].text)) =>
            /\ lyNode[n].st.y = FreshLocals.y + LineFeedsOf(lyNode[n].text) * LineHeight(LayoutAttributes)
            /\ (lyNode[n].text[Len(lyNode[n].text)] = "lf") => lyNode[n].st.x = FreshLocals.x

-----------------------------------------------------------------------------
(* Concurrent layouts *)

RECURSIVE AloneLoop(_, _, _)
AloneLoop(runs, k, st) ==
    IF k > Len(runs) THEN st
    ELSE AloneLoop(runs, k + 1, LayoutBidiRun(st, runs[k], lyFonts))

\* The fragment generateTextPaths returns for the text when no other call is
\* in progress: the BidiRuns laid out one after the other on fresh locals.
AloneFragment(text) ==
    LET end == AloneLoop(getBidiRuns(text, getEmbeddingLevels(text)), 1, FreshLocals)
    IN  [status |-> "returned", wrapped |-> FALSE, offset |-> 0, content |-> end.parts]

\* C29: concurrent layouts do not interfere: under every interleaving of the
\* calls, the fragment of each text element is the fragment that laying the
\* element out alone produces, and after the replacements fragment i stands
\* where text element i stood.
C29_LayoutsDoNotInterfere ==
    \A n \in DOMAIN lyNode :
        /\ lyNode[n].pc = "done" => lyNode[n].fragment = AloneFragment(lyNode[n].text)
        /\ lyPc = "replaced" => lyDoc[n] = FragmentOf(AloneFragment(lyNode[n].text))

\* Two elements of different texts were laid out, each to a fragment that
\* holds parts, and replaced.
C29_Witness ==
    /\ lyPc = "replaced"
    /\ lyNode[1].text # lyNode[2].text
    /\ \A n \in LayoutNodes : lyNode[n].fragment.content # <<>>
    /\ lyDoc[1] # lyDoc[2]

-----------------------------------------------------------------------------
(* applyRTLProcessing: cluster order *)

\* The clusters of the text.
rtlClusters == segmentGraphemes(rtlText)

\* Number of occurrences of a cluster in a sequence of clusters.
Occurrences(seq, g) == Cardinality({i \in 1..Len(seq) : seq[i] = g})

\* C22: applyRTLProcessing returns a permutation of the clusters of the
\* text; a text without a cluster in the Arabic/Hebrew ranges keeps its
\* cluster order, a text whose clusters all lie in these ranges comes back in
\* exactly the reverse cluster order, and the clusters are moved whole.
C22_ClusterOrder ==
    rtlPc = "done" =>
        /\ Len(rtlOut) = Len(rtlClusters)
        /\ \A i \in 1..Len(rtlClusters) :
              Occurrences(rtlOut, rtlClusters[i]) = Occurrences(rtlClusters, rtlClusters[i])
        /\ (\A i \in 1..Len(rtlClusters) : ~HasRtl(rtlClusters[i])) => rtlOut = rtlClusters
        /\ (\A i \in 1..Len(rtlClusters) : HasRtl(rtlClusters[i])) =>
              \A i \in 1..Len(rtlClusters) : rtlOut[i] = rtlClusters[Len(rtlClusters) + 1 - i]

\* An all-rtl text of two different clusters, one of them of two code
\* points, came back reversed.
C22_Witness ==
    /\ rtlPc = "done"
    /\ Len(rtlClusters) = 2
    /\ \A i \in 1..2 : HasRtl(rtlClusters[i])
    /\ Len(rtlClusters[1]) = 2
    /\ rtlOut # rtlClusters
    /\ rtlOut[2] = rtlClusters[1]

-----------------------------------------------------------------------------
(* The substitution table of a set of feature tags *)

\* The substitutes the single-substitution lookups referenced by a requested
\* tag give for glyph g.
SubstitutesFor(g) ==
    {s \in 1..4 :
        \E t \in 1..Len(sbTags), f \in 1..Len(sbGsub.features) :
            /\ sbGsub.features[f].tag = sbTags[t]
            /\ \E j \in 1..Len(sbGsub.features[f].lookupListIndexes) :
                  LET lookup == sbGsub.lookups[sbGsub.features[f].lookupListIndexes[j]]
                  IN  /\ lookup.lookupType = 1
                      /\ \E k \in 1..Len(lookup.subtables) :
                            \E i \in 1..Len(lookup.subtables[k].glyphs) :
                                /\ lookup.subtables[k].glyphs[i] = g
                                /\ i <= Len(lookup.subtables[k].substitute)
                                /\ lookup.subtables[k].substitute[i] = s}

\* C23: the table holds an entry for glyph g exactly when a
\* single-substitution lookup referenced by one of the requested tags covers
\* g, and the entry is a substitute such a lookup gives for g; lookups of
\* another type, tags absent from the font and an empty tag list contribute
\* nothing.
C23_EntriesOfRequestedLookups ==
    sbPc = "done" =>
        \A g \in 1..4 :
            /\ (g \in DOMAIN sbMap) <=> (SubstitutesFor(g) # {})
            /\ g \in DOMAIN sbMap => sbMap[g] \in SubstitutesFor(g)

-----------------------------------------------------------------------------
(* The rasterizer's WASM module *)

\* C24: a WASM buffer passed in the options object of render() is the buffer
\* the rasterizer is initialized with for that render: every initWasm
\* invocation made for a render() that was given a wasmBuffer is made with
\* that buffer.
C24_RenderBufferInitializes ==
    \A c \in 1..Len(initWasmCalls) :
        wOptions[initWasmCalls[c].render].render # NoBuffer =>
            initWasmCalls[c].bytes = wOptions[initWasmCalls[c].render].render

\* C28: under every interleaving of concurrent renderSVGToPNG calls, initWasm
\* is invoked at most once in the process, and no call rasterizes before the
\* initialization has completed.
C28_InitWasmOnce ==
    /\ Len(initWasmCalls) <= 1
    /\ \A r \in DOMAIN wPc : wPc[r] \in {"initialized", "rasterized"} => wasmInitialized

-----------------------------------------------------------------------------
(* toFile: the base directory *)

\* The path is the base directory itself or lies below it.
WithinBase(names) ==
    Len(tfBaseDir) <= Len(names) /\ SubSeq(names, 1, Len(tfBaseDir)) = tfBaseDir

\* C26: toFile never writes outside its base directory: when the resolved
\* filePath is neither the base directory nor below it, toFile raises the
\* path-traversal error and has created no directory and written no file;
\* otherwise it writes the buffer to the resolved path and returns that path.
C26_WritesOnlyWithinBase ==
    /\ \A f \in tfFiles \cup tfDirs : WithinBase(f)
    /\ tfPc = "done" =>
          IF WithinBase(Resolve(tfBaseDir, tfFilePath))
          THEN /\ tfResult = [status |-> "returned", path |-> Resolve(tfBaseDir, tfFilePath)]
               /\ tfFiles = {Resolve(tfBaseDir, tfFilePath)}
          ELSE /\ tfResult.status = "traversal"
               /\ tfFiles = {}
               /\ tfDirs = {}

=============================================================================
